---- MODULE Spec2Model ----
(***************************************************************************)
(* The on-demand dependency / declaration loader of the Monaco editor      *)
(* plugin (src/unnamed/part_001): loadTsConfig, addFileToMonaco,           *)
(* loadDtsFromDir, loadPackageTypes, loadAllNodeModulesTypes,              *)
(* resolvePathAlias, loadSourceFile, loadProjectSources, initTypeSystem    *)
(* and setContent.                                                         *)
(*                                                                         *)
(* Strings are TLA+ strings (sequences of characters); the JavaScript      *)
(* string methods the code uses are the operators below.  Every `await`    *)
(* of the code is a suspension point: an action is the code that runs      *)
(* between two awaits of one async call chain.                             *)
(***************************************************************************)
EXTENDS Integers, Sequences, FiniteSets, TLC

(***************************************************************************)
(* JavaScript string methods                                               *)
(***************************************************************************)

\* s.startsWith(p)
StartsWith(s, p) == Len(s) >= Len(p) /\ SubSeq(s, 1, Len(p)) = p

\* s.endsWith(p)
EndsWith(s, p) == Len(s) >= Len(p) /\ SubSeq(s, Len(s) - Len(p) + 1, Len(s)) = p

\* s.indexOf(p) + 1 (0 when p does not occur in s)
RECURSIVE IndexFrom(_, _, _)
IndexFrom(s, p, i) ==
  IF i + Len(p) - 1 > Len(s) THEN 0
  ELSE IF SubSeq(s, i, i + Len(p) - 1) = p THEN i
  ELSE IndexFrom(s, p, i + 1)

IndexOf(s, p) == IndexFrom(s, p, 1)

\* s.replace(p, r) with a string pattern: the first occurrence only
ReplaceFirst(s, p, r) ==
  LET i == IndexOf(s, p)
  IN IF i = 0 THEN s
     ELSE SubSeq(s, 1, i - 1) \o r \o SubSeq(s, i + Len(p), Len(s))

\* s.replace(/p/g, r) for a literal p: every occurrence, left to right,
\* without rescanning the replaced text
RECURSIVE ReplaceAll(_, _, _)
ReplaceAll(s, p, r) ==
  LET i == IndexOf(s, p)
  IN IF i = 0 THEN s
     ELSE SubSeq(s, 1, i - 1) \o r \o ReplaceAll(SubSeq(s, i + Len(p), Len(s)), p, r)

\* s.split(sep) for a one-character separator
RECURSIVE Split(_, _)
Split(s, sep) ==
  LET i == IndexOf(s, sep)
  IN IF i = 0 THEN <<s>>
     ELSE <<SubSeq(s, 1, i - 1)>> \o Split(SubSeq(s, i + 1, Len(s)), sep)

\* parts.join(sep)
RECURSIVE Join(_, _)
Join(parts, sep) ==
  IF Len(parts) = 0 THEN ""
  ELSE IF Len(parts) = 1 THEN parts[1]
  ELSE parts[1] \o sep \o Join(Tail(parts), sep)

\* parts.slice(0, -1)
SliceButLast(parts) == SubSeq(parts, 1, Len(parts) - 1)

\* parts.pop() as it acts on the accumulator of the reduce
Pop(acc) == IF Len(acc) = 0 THEN acc ELSE SubSeq(acc, 1, Len(acc) - 1)

\* xs.includes(x)
Includes(xs, x) == \E i \in 1..Len(xs) : xs[i] = x

(***************************************************************************)
(* Optional values: a call that throws, or returns null, yields None       *)
(***************************************************************************)
None == <<>>
Some(v) == <<v>>
IsSome(o) == Len(o) = 1
Val(o) == o[1]

(***************************************************************************)
(* Program constants                                                       *)
(***************************************************************************)

\* loadSourceFile: if (depth > 5) return
DepthLimit == 5

\* loadDtsFromDir: content.length < 500 * 1024
SizeLimit == 500 * 1024

\* loadPackageTypes: loadDtsFromDir(typesPath, 3)
TypesCrawlDepth == 3

\* loadPackageTypes: loadDtsFromDir(packagePath, 2)
PackageCrawlDepth == 2

\* loadProjectSources: loadDtsFromDir('src', 5)
SrcCrawlDepth == 5

\* the list with '.tsx' tried before '.ts'
ExtensionsTsxFirst ==
  <<"", ".tsx", ".ts", ".js", ".jsx", "/index.ts", "/index.tsx", "/index.js", "/index.jsx">>

\* loadSourceFile: const extensions = [...]
Extensions ==
  <<"", ".ts", ".tsx", ".js", ".jsx",
    "/index.ts", "/index.tsx", "/index.js", "/index.jsx">>

\* loadAllNodeModulesTypes: const priorityPackages = [...]
PriorityPackages ==
  <<"react", "react-dom", "node", "react-router-dom", "react-i18next",
    "lucide-react", "sonner">>

\* loadProjectSources: const entryPoints = [...]
EntryPoints ==
  <<"src/index.ts", "src/index.tsx", "src/main.ts", "src/main.tsx", "src/App.tsx">>

\* loadDtsFromDir: the directory names it does not descend into
HeavyDirs == {"test", "tests", "__tests__", "examples", "docs", ".git"}

(***************************************************************************)
(* detectLanguage                                                          *)
(***************************************************************************)

\* s.lastIndexOf(p) + 1
RECURSIVE LastIndexFrom(_, _, _)
LastIndexFrom(s, p, i) ==
  IF i < 1 THEN 0
  ELSE IF SubSeq(s, i, i + Len(p) - 1) = p THEN i
  ELSE LastIndexFrom(s, p, i - 1)

\* filename.split('.').pop()
LastDotPart(filename) ==
  LET i == LastIndexFrom(filename, ".", Len(filename))
  IN SubSeq(filename, i + 1, Len(filename))

UpperCase == "ABCDEFGHIJKLMNOPQRSTUVWXYZ"
LowerCase == "abcdefghijklmnopqrstuvwxyz"

\* s.toLowerCase()
RECURSIVE ToLowerCase(_)
ToLowerCase(s) ==
  IF Len(s) = 0 THEN ""
  ELSE LET c == SubSeq(s, 1, 1)
           k == IndexOf(UpperCase, c)
       IN (IF k = 0 THEN c ELSE SubSeq(LowerCase, k, k)) \o ToLowerCase(Tail(s))

\* the entries of languageMap
LanguageMap(ext) ==
  CASE ext \in {"ts", "tsx"} -> "typescript"
    [] ext \in {"js", "jsx", "mjs", "cjs"} -> "javascript"
    [] ext = "json" -> "json"
    [] ext \in {"html", "htm"} -> "html"
    [] ext = "css" -> "css"
    [] ext = "scss" -> "scss"
    [] ext = "less" -> "less"
    [] ext \in {"md", "mdx"} -> "markdown"
    [] ext \in {"yaml", "yml"} -> "yaml"
    [] ext \in {"xml", "svg"} -> "xml"
    [] ext = "py" -> "python"
    [] ext = "rb" -> "ruby"
    [] ext = "rs" -> "rust"
    [] ext = "go" -> "go"
    [] ext = "java" -> "java"
    [] ext = "kt" -> "kotlin"
    [] ext = "swift" -> "swift"
    [] ext \in {"c", "h"} -> "c"
    [] ext \in {"cpp", "hpp"} -> "cpp"
    [] ext = "cs" -> "csharp"
    [] ext = "php" -> "php"
    [] ext \in {"sh", "bash", "zsh"} -> "shell"
    [] ext = "sql" -> "sql"
    [] ext \in {"graphql", "gql"} -> "graphql"
    [] ext = "dockerfile" -> "dockerfile"
    [] ext \in {"toml", "ini", "env", "gitignore"} -> "ini"
    [] OTHER -> "plaintext"

detectLanguage(filename) == LanguageMap(ToLowerCase(LastDotPart(filename)))

(***************************************************************************)
(* resolvePathAlias                                                        *)
(***************************************************************************)

\* importPath.match(regex) for the regex built from one alias pattern: the
\* first '*' of the pattern becomes the capture group (.*), every other
\* character is escaped and matches itself, and the regex is anchored at
\* both ends.  The result is None (no match) or Some(match[1] || '').
AliasMatch(alias, importPath) ==
  LET star == IndexOf(alias, "*")
      prefix == SubSeq(alias, 1, star - 1)
      suffix == SubSeq(alias, star + 1, Len(alias))
  IN IF star = 0
       THEN (IF importPath = alias THEN Some("") ELSE None)
       ELSE IF /\ Len(importPath) >= Len(prefix) + Len(suffix)
               /\ StartsWith(importPath, prefix)
               /\ EndsWith(importPath, suffix)
              THEN Some(SubSeq(importPath, Len(prefix) + 1, Len(importPath) - Len(suffix)))
              ELSE None

\* fullPath.replace(/^\.\//, '')
StripDotSlash(p) == IF StartsWith(p, "./") THEN SubSeq(p, 3, Len(p)) ELSE p

\* the body of `for (const target of targets)`: it returns in its first
\* iteration
AliasTarget(target, captured, baseUrl) ==
  LET resolvedPath == ReplaceFirst(target, "*", captured)
      fullPath == IF baseUrl # "" THEN baseUrl \o "/" \o resolvedPath ELSE resolvedPath
  IN StripDotSlash(fullPath)

\* the loop over Object.entries(tsconfigPaths), from entry k on; paths is
\* the sequence of [alias, targets] entries in property order
RECURSIVE ResolveFrom(_, _, _, _)
ResolveFrom(paths, baseUrl, importPath, k) ==
  IF k > Len(paths) THEN None
  ELSE LET m == AliasMatch(paths[k].alias, importPath)
       IN IF IsSome(m) /\ Len(paths[k].targets) > 0
            THEN Some(AliasTarget(paths[k].targets[1], Val(m), baseUrl))
            ELSE ResolveFrom(paths, baseUrl, importPath, k + 1)

resolvePathAlias(paths, baseUrl, importPath) == ResolveFrom(paths, baseUrl, importPath, 1)

(***************************************************************************)
(* loadSourceFile: resolution of one extracted specifier                   *)
(***************************************************************************)

\* the reduce without `else if (part !== '.')`: every part but '..' is kept
RECURSIVE NormalizePartsKeepingDots(_, _)
NormalizePartsKeepingDots(parts, acc) ==
  IF Len(parts) = 0 THEN acc
  ELSE LET part == Head(parts)
       IN NormalizePartsKeepingDots(Tail(parts),
            IF part = ".." THEN Pop(acc)
            ELSE Append(acc, part))

\* resolvedPath.split('/').reduce(...).join('/')
RECURSIVE NormalizeParts(_, _)
NormalizeParts(parts, acc) ==
  IF Len(parts) = 0 THEN acc
  ELSE LET part == Head(parts)
       IN NormalizeParts(Tail(parts),
            IF part = ".." THEN Pop(acc)
            ELSE IF part # "." THEN Append(acc, part)
            ELSE acc)

NormalizePath(p) == Join(NormalizeParts(Split(p, "/"), <<>>), "/")

\* the guard of line 389: the specifier is skipped as a node_modules import
IsSkippedImport(importPath) ==
  /\ ~StartsWith(importPath, ".")
  /\ ~StartsWith(importPath, "@/")
  /\ ~StartsWith(importPath, "~/")

\* the path loadSourceFile recurses into for one specifier of the file
\* fullPath, or None when the loop continues without recursing
ResolveImport(fullPath, importPath, paths, baseUrl) ==
  IF IsSkippedImport(importPath) THEN None
  ELSE IF StartsWith(importPath, ".")
    THEN LET dir == Join(SliceButLast(Split(fullPath, "/")), "/")
         IN Some(NormalizePath(ReplaceAll(dir \o "/" \o importPath, "/./", "/")))
    ELSE LET aliasResolved == resolvePathAlias(paths, baseUrl, importPath)
         IN IF IsSome(aliasResolved) /\ Val(aliasResolved) # ""
              THEN Some(NormalizePath(Val(aliasResolved)))
              ELSE None

\* the import forms importRegex matches: `import|export`, white space, an
\* optional `{...} from`, `* as x from` or `x from`, then the quoted
\* specifier.  A default import combined with named imports, `export *
\* from`, `import type {...} from`, import('...') and require('...') do not
\* match.
MatchedForms == {"sideEffect", "default", "named", "namespace", "exportNamed", "exportNamespace"}
UnmatchedForms == {"defaultAndNamed", "exportStar", "importType", "dynamic", "require"}

\* the matches of importRegex, last match first
RECURSIVE ExtractImportsReversed(_)
ExtractImportsReversed(stmts) ==
  IF Len(stmts) = 0 THEN <<>>
  ELSE ExtractImportsReversed(Tail(stmts))
       \o (IF Head(stmts).form \in MatchedForms THEN <<Head(stmts).spec>> ELSE <<>>)

\* every match[1] of importRegex over the content, in text order
RECURSIVE ExtractImports(_)
ExtractImports(stmts) ==
  IF Len(stmts) = 0 THEN <<>>
  ELSE (IF Head(stmts).form \in MatchedForms THEN <<Head(stmts).spec>> ELSE <<>>)
       \o ExtractImports(Tail(stmts))

(***************************************************************************)
(* State                                                                   *)
(***************************************************************************)
VARIABLES
  world,            \* the project the session runs in: an index into Worlds
  loadedFiles,      \* const loadedFiles = new Set<string>()
  extraLibs,        \* the addExtraLib(content, uri) calls made so far, in order
  tsconfigPaths,    \* Object.entries(tsconfigPaths): sequence of [alias, targets]
  tsconfigBaseUrl,  \* let tsconfigBaseUrl = '.'
  compilerOptions,  \* the record last given to setCompilerOptions (NoOptions before)
  currentFilename,  \* let currentFilename = ''
  tasks,            \* per async call chain: its stack of suspended calls
  nset,             \* number of setContent messages handled so far
  io,               \* <<caller, operation, path>> -> number of such fs calls issued
  scanned,          \* the specifiers loadSourceFile extracted, with their route
  pkgCalls,         \* the loadPackageTypes(packageName) calls made so far, in order
  lastLoadCall,     \* the loadSourceFile call made by the last step, if any
  probe             \* the last direct call of addFileToMonaco or resolvePathAlias

vars ==
  <<world, loadedFiles, extraLibs, tsconfigPaths, tsconfigBaseUrl,
    compilerOptions, currentFilename, tasks, nset, io, scanned, pkgCalls,
    lastLoadCall, probe>>

(***************************************************************************)
(* Bounds of the model                                                     *)
(***************************************************************************)

\* setContent messages handled in one session, when they arrive at any time
MaxSetContent == 1

\* setContent messages handled in one session, when each arrives after the
\* load of the one before has ended
MaxSeqLoads == 2

\* task 0 is the initTypeSystem() chain started at module load; task k > 0
\* is the loadSourceFile chain started by the k-th setContent message
TaskIds == 0..(MaxSetContent + MaxSeqLoads)

(***************************************************************************)
(* window.gitton.fs                                                        *)
(***************************************************************************)

\* what JSON.parse makes of a text that is no JSON document: it throws
NoJson == [ok |-> FALSE]

\* what JSON.parse returns for a JSON object: value maps its keys
Json(value) == [ok |-> TRUE, value |-> value]

\* a source or declaration file: its length and its import/export statements
File(len, stmts) ==
  [kind |-> "file", len |-> len, stmts |-> stmts, entries |-> <<>>, json |-> NoJson,
   text |-> ""]

\* a directory: what readdir returns for it
Dir(entries) ==
  [kind |-> "dir", len |-> 0, stmts |-> <<>>, entries |-> entries, json |-> NoJson,
   text |-> ""]

\* a JSON document (package.json, tsconfig.json): what JSON.parse returns
JsonFile(json) ==
  [kind |-> "file", len |-> 1, stmts |-> <<>>, entries |-> <<>>, json |-> json,
   text |-> ""]

Entry(name, isDirectory) == [name |-> name, isDirectory |-> isDirectory]

(***************************************************************************)
(* tsconfig.json as text: the replace of line 170 and JSON.parse           *)
(***************************************************************************)

CharAt(s, i) == IF i \in 1..Len(s) THEN SubSeq(s, i, i) ELSE ""

\* s.substr(i - 1, n): the n characters from position i, fewer at the end
Chars(s, i, n) ==
  IF i > Len(s) THEN ""
  ELSE SubSeq(s, i, IF i + n - 1 > Len(s) THEN Len(s) ELSE i + n - 1)

\* the least position of a set of positions, or 0 if there is none
FirstPos(ps) ==
  CHOOSE r \in {IF S = {} THEN 0 ELSE CHOOSE k \in S : \A h \in S : k <= h :
                  S \in {ps}} : TRUE

\* the end of the line position i lies on: the position of the next line
\* terminator, or Len(s) + 1
LineEnd(s, i) ==
  CHOOSE r \in {IF end = 0 THEN Len(s) + 1 ELSE end :
                  end \in {FirstPos({k \in i..Len(s) : CharAt(s, k) \in {"\n", "\r"}})}} :
    TRUE

\* where the match of /\/\*[\s\S]*?\*\/|\/\/.*/ that starts at position k
\* ends (exclusive), or 0 if none starts there: '/*' matches up to the next
\* '*/', if there is one; '//' matches the rest of the line
CommentEnd(s, k) ==
  IF Chars(s, k, 2) = "/*"
    THEN CHOOSE r \in {IF close = 0 THEN 0 ELSE close + 2 :
                         close \in {FirstPos({h \in (k + 2)..Len(s) :
                                                Chars(s, h, 2) = "*/"})}} : TRUE
  ELSE IF Chars(s, k, 2) = "//" THEN LineEnd(s, k + 2)
  ELSE 0

\* content.replace(/\/\*[\s\S]*?\*\/|\/\/.*/g, '') from position i on: the
\* text up to the first match stays, the match goes, and the search goes
\* on behind it
RECURSIVE StripFrom(_, _)
StripFrom(s, i) ==
  IF i > Len(s) THEN ""
  ELSE CHOOSE r \in
         {IF start = 0 THEN SubSeq(s, i, Len(s))
          ELSE SubSeq(s, i, start - 1) \o StripFrom(s, CommentEnd(s, start)) :
            start \in {FirstPos({k \in i..Len(s) : CommentEnd(s, k) # 0})}} : TRUE

StripComments(s) == CHOOSE r \in {StripFrom(t, 1) : t \in {s}} : TRUE

\* JSON.parse for documents of objects, arrays, strings without escapes
\* and the literals true, false, null.  A parsed value is a tree: a string
\* node, a literal node, an array node with its items, or an object node
\* with its members in document order.
JsonFail == [ok |-> FALSE, pos |-> 0, val |-> <<>>]

JsonNode(t, s, items) == [t |-> t, s |-> s, items |-> items]

RECURSIVE SkipSpace(_, _)
SkipSpace(s, i) ==
  IF CharAt(s, i) \in {" ", "\n", "\r", "\t"} THEN SkipSpace(s, i + 1) ELSE i

\* the string literal that starts at position i and ends at position close
JsonStringTo(s, i, close) ==
  IF close = 0 THEN JsonFail
  ELSE IF \E k \in (i + 1)..(close - 1) : CharAt(s, k) \in {"\n", "\r", "\t", "\\"}
    THEN JsonFail
  ELSE [ok |-> TRUE, pos |-> close + 1,
        val |-> JsonNode("str", SubSeq(s, i + 1, close - 1), <<>>)]

\* the string literal that starts at position i
JsonString(s, i) ==
  IF CharAt(s, i) # "\"" THEN JsonFail
  ELSE CHOOSE r \in {JsonStringTo(s, i, close) :
                       close \in {FirstPos({k \in (i + 1)..Len(s) : CharAt(s, k) = "\""})}} :
         TRUE

RECURSIVE JsonValueAt(_, _)
RECURSIVE JsonMembers(_, _, _)
RECURSIVE JsonItems(_, _, _)

\* the value that starts at or after position i
JsonValue(s, i) == CHOOSE r \in {JsonValueAt(s, j) : j \in {SkipSpace(s, i)}} : TRUE

\* the value that starts at position j
JsonValueAt(s, j) ==
  IF CharAt(s, j) = "\"" THEN JsonString(s, j)
  ELSE IF CharAt(s, j) = "{"
    THEN IF CharAt(s, SkipSpace(s, j + 1)) = "}"
           THEN [ok |-> TRUE, pos |-> SkipSpace(s, j + 1) + 1,
                 val |-> JsonNode("obj", "", <<>>)]
           ELSE JsonMembers(s, j + 1, <<>>)
  ELSE IF CharAt(s, j) = "["
    THEN IF CharAt(s, SkipSpace(s, j + 1)) = "]"
           THEN [ok |-> TRUE, pos |-> SkipSpace(s, j + 1) + 1,
                 val |-> JsonNode("arr", "", <<>>)]
           ELSE JsonItems(s, j + 1, <<>>)
  ELSE IF \E l \in {"true", "false", "null"} : Chars(s, j, Len(l)) = l
    THEN LET l == CHOOSE l \in {"true", "false", "null"} : Chars(s, j, Len(l)) = l
         IN [ok |-> TRUE, pos |-> j + Len(l), val |-> JsonNode("lit", l, <<>>)]
  ELSE JsonFail

\* an object goes on behind the member all ends with, at position next
JsonMembersOn(s, next, all) ==
  IF CharAt(s, next) = "," THEN JsonMembers(s, next + 1, all)
  ELSE IF CharAt(s, next) = "}"
    THEN [ok |-> TRUE, pos |-> next + 1, val |-> JsonNode("obj", "", all)]
  ELSE JsonFail

\* the members of an object from position i on, acc being those before
JsonMembers(s, i, acc) ==
  CHOOSE r \in
    {IF ~key.ok \/ CharAt(s, SkipSpace(s, key.pos)) # ":" THEN JsonFail
     ELSE CHOOSE q \in
            {IF ~v.ok THEN JsonFail
             ELSE CHOOSE p \in
                    {JsonMembersOn(s, SkipSpace(s, v.pos), all) :
                       all \in {Append(acc, [key |-> key.val.s, val |-> v.val])}} : TRUE :
               v \in {JsonValue(s, SkipSpace(s, key.pos) + 1)}} : TRUE :
       key \in {JsonString(s, SkipSpace(s, i))}} : TRUE

\* an array goes on behind the item all ends with, at position next
JsonItemsOn(s, next, all) ==
  IF CharAt(s, next) = "," THEN JsonItems(s, next + 1, all)
  ELSE IF CharAt(s, next) = "]"
    THEN [ok |-> TRUE, pos |-> next + 1, val |-> JsonNode("arr", "", all)]
  ELSE JsonFail

\* the items of an array from position i on, acc being those before
JsonItems(s, i, acc) ==
  CHOOSE r \in
    {IF ~v.ok THEN JsonFail
     ELSE CHOOSE p \in {JsonItemsOn(s, SkipSpace(s, v.pos), all) :
                          all \in {Append(acc, v.val)}} : TRUE :
       v \in {JsonValue(s, i)}} : TRUE

\* the member of an object, given by its members, that a key stands for:
\* the last one with that key
LastMember(ms, key) ==
  ms[CHOOSE k \in DOMAIN ms :
       ms[k].key = key /\ \A h \in DOMAIN ms : ms[h].key = key => h <= k]

\* the JavaScript value of a parsed tree: an object is the function from
\* its keys to the value of the last member with that key; the object of
\* `paths` keeps its members in document order, as Object.entries needs
RECURSIVE JsonToValue(_)
JsonToValue(node) ==
  IF node.t = "str" THEN node.s
  ELSE IF node.t = "lit" THEN (IF node.s = "null" THEN "null" ELSE node.s = "true")
  ELSE IF node.t = "arr" THEN [k \in DOMAIN node.items |-> JsonToValue(node.items[k])]
  ELSE [key \in {node.items[k].key : k \in DOMAIN node.items} |->
          IF key = "paths" /\ LastMember(node.items, key).val.t = "obj"
            THEN [k \in DOMAIN LastMember(node.items, key).val.items |->
                    [alias |-> LastMember(node.items, key).val.items[k].key,
                     targets |-> JsonToValue(LastMember(node.items, key).val.items[k].val)]]
            ELSE JsonToValue(LastMember(node.items, key).val)]

\* the document s is: a SyntaxError, or its value
JsonDocument(s) ==
  CHOOSE d \in {IF r.ok /\ SkipSpace(s, r.pos) = Len(s) + 1 THEN Json(JsonToValue(r.val))
                ELSE NoJson : r \in {JsonValue(s, 1)}} : TRUE

\* JSON.parse(s)
JsonParse(s) == CHOOSE r \in {JsonDocument(t) : t \in {s}} : TRUE

\* tsconfig.json given as text: json is the document it declares, which
\* is what JSON.parse returns for plain, the text without its comments
TsConfigText(text, plain) == [JsonFile(JsonParse(plain)) EXCEPT !.text = text]

(***************************************************************************)
(* Projects the model is run on                                            *)
(***************************************************************************)

\* import lists of the files of a generated import graph
MaxImports == 1

\* files of the longest import chain
MaxChain == 8

Named(spec) == [form |-> "named", spec |-> spec]

Stmts(specs) == [k \in 1..Len(specs) |-> Named(specs[k])]

SeqsUpTo(S, n) == UNION {[1..k -> S] : k \in 0..n}

\* three files of src/ importing one another by extensionless relative
\* specifiers
GraphFs(ia, ib, ic) ==
  ("src" :> Dir(<<Entry("a.ts", FALSE), Entry("b.ts", FALSE), Entry("c.ts", FALSE)>>))
  @@ ("src/a.ts" :> File(10, Stmts(ia)))
  @@ ("src/b.ts" :> File(10, Stmts(ib)))
  @@ ("src/c.ts" :> File(10, Stmts(ic)))

RECURSIVE SetToSeq(_)
SetToSeq(S) ==
  IF S = {} THEN <<>>
  ELSE LET x == CHOOSE x \in S : TRUE IN <<x>> \o SetToSeq(S \ {x})

\* every such project, numbered
GraphWorldSeq ==
  LET A == SetToSeq(SeqsUpTo({"./b", "./c"}, MaxImports))
      B == SetToSeq(SeqsUpTo({"./a", "./c"}, MaxImports))
      C == SetToSeq(SeqsUpTo({"./a", "./b"}, MaxImports))
      n == Len(A)
  IN [k \in 1..(n * n * n) |->
        [fs |-> GraphFs(A[((k - 1) % n) + 1],
                        B[(((k - 1) \div n) % n) + 1],
                        C[((k - 1) \div (n * n)) + 1]),
         faulty |-> {}, inputs |-> {"src/a.ts"}]]

GraphWorlds == {GraphWorldSeq[k] : k \in DOMAIN GraphWorldSeq}

Digit(k) == SubSeq("0123456789", k + 1, k + 1)
ChainStem(k) == "f" \o Digit(k)
ChainFile(k) == "src/" \o ChainStem(k) \o ".ts"

\* src/f0.ts imports './f1', which imports './f2', ...; in a ring the last
\* file imports './f0'
ChainFs(n, ring) ==
  [p \in {"src"} \cup {ChainFile(k) : k \in 0..(n - 1)} |->
     IF p = "src" THEN Dir([k \in 1..n |-> Entry(ChainStem(k - 1) \o ".ts", FALSE)])
     ELSE LET k == CHOOSE k \in 0..(n - 1) : ChainFile(k) = p
          IN File(10, IF k < n - 1 THEN Stmts(<<"./" \o ChainStem(k + 1)>>)
                      ELSE IF ring THEN Stmts(<<"./f0">>)
                      ELSE <<>>)]

ChainWorlds ==
  {[fs |-> ChainFs(n, ring), faulty |-> {}, inputs |-> {"src/f0.ts", "src/f1.ts"}] :
     n \in (DepthLimit - 1)..MaxChain, ring \in BOOLEAN}

TsConfig(baseUrl, paths) ==
  JsonFile(Json([compilerOptions |-> [baseUrl |-> baseUrl, paths |-> paths]]))

Alias(alias, targets) == [alias |-> alias, targets |-> targets]

\* src/app.ts imports '@/lib/utils' under {"@/*": ["src/*"]}; what is at the
\* bare stem src/lib/utils varies: nothing, a directory, a file
UtilsFs(stem) ==
  ("tsconfig.json" :> TsConfig(".", <<Alias("@/*", <<"src/*">>)>>))
  @@ ("src" :> Dir(<<Entry("app.ts", FALSE), Entry("lib", TRUE)>>))
  @@ ("src/app.ts" :> File(10, Stmts(<<"@/lib/utils">>)))
  @@ ("src/lib" :> Dir(<<Entry("utils.ts", FALSE), Entry("utils.tsx", FALSE),
                         Entry("utils.js", FALSE)>>
                       \o (IF stem = "none" THEN <<>>
                           ELSE <<Entry("utils", stem = "dir")>>)))
  @@ ("src/lib/utils.ts" :> File(10, <<>>))
  @@ ("src/lib/utils.tsx" :> File(10, <<>>))
  @@ ("src/lib/utils.js" :> File(10, <<>>))
  @@ (IF stem = "dir"
        THEN ("src/lib/utils" :> Dir(<<Entry("index.ts", FALSE)>>))
             @@ ("src/lib/utils/index.ts" :> File(10, <<>>))
      ELSE IF stem = "file" THEN ("src/lib/utils" :> File(10, <<>>))
      ELSE <<>>)

UtilsWorlds ==
  {[fs |-> UtilsFs(stem), faulty |-> {}, inputs |-> {"src/app.ts"}] :
     stem \in {"none", "dir", "file"}}

\* src/app.ts imports '@/utils' under {"@/*": ["src/*", "lib/*"]}; which of
\* src/utils.ts and lib/utils.ts exist varies
TargetsFs(inSrc, inLib) ==
  ("tsconfig.json" :> TsConfig(".", <<Alias("@/*", <<"src/*", "lib/*">>)>>))
  @@ ("src" :> Dir(<<Entry("app.ts", FALSE)>>
                   \o (IF inSrc THEN <<Entry("utils.ts", FALSE)>> ELSE <<>>)))
  @@ ("src/app.ts" :> File(10, Stmts(<<"@/utils">>)))
  @@ (IF inSrc THEN ("src/utils.ts" :> File(10, <<>>)) ELSE <<>>)
  @@ (IF inLib THEN ("lib" :> Dir(<<Entry("utils.ts", FALSE)>>))
                    @@ ("lib/utils.ts" :> File(10, <<>>))
      ELSE <<>>)

TargetsWorlds ==
  {[fs |-> TargetsFs(inSrc, inLib), faulty |-> {}, inputs |-> {"src/app.ts"}] :
     inSrc \in BOOLEAN, inLib \in BOOLEAN}

\* a project with type stubs, a package with its own types, an entry point
\* and declaration files around the size limit
ProjectFs ==
  ("tsconfig.json" :>
     JsonFile(Json([compilerOptions |->
       [baseUrl |-> ".", jsx |-> "react-jsx",
        paths |-> <<Alias("@/*", <<"src/*">>), Alias("components/*", <<"src/*">>)>>]])))
  @@ ("README.md" :> File(10, <<>>))
  @@ ("src" :> Dir(<<Entry("index.ts", FALSE), Entry("a.ts", FALSE), Entry("b.ts", FALSE),
                     Entry("lazy.ts", FALSE), Entry("globals.d.ts", FALSE),
                     Entry(".cache", TRUE)>>))
  @@ ("src/index.ts" :>
        File(120, <<Named("./a"), Named("lodash"), Named("@/b"),
                    [form |-> "dynamic", spec |-> "./lazy"], Named("~/c"),
                    Named("components/b"), Named("left-pad"), Named("@/missing")>>))
  @@ ("src/a.ts" :> File(50, Stmts(<<"./b", "react">>)))
  @@ ("src/b.ts" :> File(50, <<>>))
  @@ ("src/lazy.ts" :> File(50, <<>>))
  @@ ("src/globals.d.ts" :> File(SizeLimit - 1, <<>>))
  @@ ("src/.cache" :> Dir(<<Entry("x.d.ts", FALSE)>>))
  @@ ("src/.cache/x.d.ts" :> File(10, <<>>))
  @@ ("node_modules" :> Dir(<<Entry("@types", TRUE), Entry("sonner", TRUE)>>))
  @@ ("node_modules/@types" :>
        Dir(<<Entry("react", TRUE), Entry("lodash", TRUE), Entry("README.md", FALSE)>>))
  @@ ("node_modules/@types/README.md" :> File(10, <<>>))
  @@ ("node_modules/@types/react" :>
        Dir(<<Entry("index.d.ts", FALSE), Entry("big.d.ts", FALSE), Entry("over.d.ts", FALSE),
              Entry("test", TRUE), Entry("ts5.0", TRUE), Entry("notes.txt", FALSE)>>))
  @@ ("node_modules/@types/react/index.d.ts" :> File(SizeLimit - 1, <<>>))
  @@ ("node_modules/@types/react/big.d.ts" :> File(SizeLimit, <<>>))
  @@ ("node_modules/@types/react/over.d.ts" :> File(SizeLimit + 1, <<>>))
  @@ ("node_modules/@types/react/notes.txt" :> File(10, <<>>))
  @@ ("node_modules/@types/react/test" :> Dir(<<Entry("t.d.ts", FALSE)>>))
  @@ ("node_modules/@types/react/test/t.d.ts" :> File(10, <<>>))
  @@ ("node_modules/@types/react/ts5.0" :> Dir(<<Entry("index.d.ts", FALSE)>>))
  @@ ("node_modules/@types/react/ts5.0/index.d.ts" :> File(10, <<>>))
  @@ ("node_modules/@types/lodash" :> Dir(<<Entry("index.d.ts", FALSE)>>))
  @@ ("node_modules/@types/lodash/index.d.ts" :> File(10, <<>>))
  @@ ("node_modules/sonner" :> Dir(<<Entry("package.json", FALSE), Entry("dist", TRUE)>>))
  @@ ("node_modules/sonner/package.json" :> JsonFile(Json([types |-> "dist/index.d.ts"])))
  @@ ("node_modules/sonner/dist" :>
        Dir(<<Entry("index.d.ts", FALSE), Entry("extra.d.ts", FALSE)>>))
  @@ ("node_modules/sonner/dist/index.d.ts" :> File(SizeLimit, <<>>))
  @@ ("node_modules/sonner/dist/extra.d.ts" :> File(10, <<>>))

ProjectWorlds ==
  {[fs |-> ProjectFs, faulty |-> {}, inputs |-> {"src/a.ts", "README.md"}]}

\* src/app.ts imports '@/x' and src/x.ts exists; tsconfig.json is missing,
\* is no JSON, or cannot be read
NoConfigFs(kind) ==
  ("src" :> Dir(<<Entry("app.ts", FALSE), Entry("x.ts", FALSE)>>))
  @@ ("src/app.ts" :> File(10, Stmts(<<"@/x">>)))
  @@ ("src/x.ts" :> File(10, <<>>))
  @@ (IF kind = "missing" THEN <<>> ELSE ("tsconfig.json" :> JsonFile(NoJson)))

NoConfigWorlds ==
  {[fs |-> NoConfigFs(kind),
    faulty |-> IF kind = "unreadable" THEN {<<"readFile", "tsconfig.json">>} ELSE {},
    inputs |-> {"src/app.ts"}] : kind \in {"missing", "malformed", "unreadable"}}

\* declaration files of src/ around a directory and a file that may fail
CrawlFs ==
  ("src" :> Dir(<<Entry("a.d.ts", FALSE), Entry("bad", TRUE), Entry("b.d.ts", FALSE),
                  Entry("sub", TRUE), Entry("c.d.ts", FALSE)>>))
  @@ ("src/a.d.ts" :> File(10, <<>>))
  @@ ("src/b.d.ts" :> File(10, <<>>))
  @@ ("src/c.d.ts" :> File(10, <<>>))
  @@ ("src/bad" :> Dir(<<Entry("e.d.ts", FALSE)>>))
  @@ ("src/bad/e.d.ts" :> File(10, <<>>))
  @@ ("src/sub" :> Dir(<<Entry("d.d.ts", FALSE)>>))
  @@ ("src/sub/d.d.ts" :> File(10, <<>>))

CrawlFaults ==
  {{}, {<<"readdir", "src/bad">>}, {<<"readFile", "src/b.d.ts">>},
   {<<"readdir", "src/bad">>, <<"readFile", "src/b.d.ts">>}, {<<"readdir", "src">>}}

CrawlWorlds ==
  {[fs |-> CrawlFs, faulty |-> f, inputs |-> {"src/a.d.ts"}] : f \in CrawlFaults}

\* ProjectFs with one call of window.gitton.fs rejecting while package
\* types are loaded
PackageFaults ==
  {{<<"exists", "node_modules/@types/react">>},
   {<<"exists", "node_modules/sonner">>},
   {<<"readFile", "node_modules/sonner/package.json">>},
   {<<"exists", "node_modules/@types/lodash">>},
   {<<"readdir", "node_modules/@types">>}}

PackageFaultWorlds ==
  {[fs |-> ProjectFs, faulty |-> f, inputs |-> {"src/a.ts"}] : f \in PackageFaults}

\* src/app.ts imports prefix + 'x' under {prefix + '*': ["src/*"]}, and
\* src/x.ts exists
PrefixFs(prefix) ==
  ("tsconfig.json" :> TsConfig(".", <<Alias(prefix \o "*", <<"src/*">>)>>))
  @@ ("src" :> Dir(<<Entry("app.ts", FALSE), Entry("x.ts", FALSE)>>))
  @@ ("src/app.ts" :> File(10, Stmts(<<prefix \o "x">>)))
  @@ ("src/x.ts" :> File(10, <<>>))

PrefixWorlds ==
  {[fs |-> PrefixFs(prefix), faulty |-> {}, inputs |-> {"src/app.ts"}] :
     prefix \in {"@/", "~/", "#/", "components/"}}

\* main.ts in the project root imports './x' and './lib/../y'; src/deep/m.ts
\* imports '../up' and './././here'
RootFs ==
  ("main.ts" :> File(10, Stmts(<<"./x", "./lib/../y">>)))
  @@ ("x.ts" :> File(10, <<>>))
  @@ ("y.ts" :> File(10, <<>>))
  @@ ("src" :> Dir(<<Entry("up.ts", FALSE), Entry("deep", TRUE)>>))
  @@ ("src/up.ts" :> File(10, <<>>))
  @@ ("src/deep" :> Dir(<<Entry("m.ts", FALSE), Entry("here.ts", FALSE)>>))
  @@ ("src/deep/m.ts" :> File(10, Stmts(<<"../up", "./././here">>)))
  @@ ("src/deep/here.ts" :> File(10, <<>>))

RootWorlds ==
  {[fs |-> RootFs, faulty |-> {}, inputs |-> {"main.ts", "src/deep/m.ts"}]}

\* a chain of 7 files; the host shows its head and then the file at depth 5
ReentryWorlds ==
  {[fs |-> ChainFs(DepthLimit + 2, FALSE), faulty |-> {},
    inputs |-> {ChainFile(0), ChainFile(DepthLimit)}]}

\* src/app.ts imports './lib' and './gone': src/lib is a directory with
\* index.tsx and index.js, no candidate of src/gone exists; in the second
\* project the read of src/lib/index.tsx is rejected
IndexFs ==
  ("src" :> Dir(<<Entry("app.ts", FALSE), Entry("lib", TRUE)>>))
  @@ ("src/app.ts" :> File(10, Stmts(<<"./lib", "./gone">>)))
  @@ ("src/lib" :> Dir(<<Entry("index.tsx", FALSE), Entry("index.js", FALSE)>>))
  @@ ("src/lib/index.tsx" :> File(10, <<>>))
  @@ ("src/lib/index.js" :> File(10, <<>>))

IndexWorlds ==
  {[fs |-> IndexFs, faulty |-> faulty, inputs |-> {"src/app.ts"}] :
     faulty \in {{}, {<<"readFile", "src/lib/index.tsx">>}}}

\* five files of src/ with two imports in a file: in the first project a
\* diamond (a imports b and c, b imports d and c, c imports e), in the
\* second one a cycle (a imports b and c, b imports a and e, c imports d)
OrderFs(cyclic) ==
  ("src" :> Dir(<<Entry("a.ts", FALSE), Entry("b.ts", FALSE), Entry("c.ts", FALSE),
                  Entry("d.ts", FALSE), Entry("e.ts", FALSE)>>))
  @@ ("src/a.ts" :> File(10, Stmts(<<"./b", "./c">>)))
  @@ ("src/b.ts" :> File(10, Stmts(IF cyclic THEN <<"./a", "./e">> ELSE <<"./d", "./c">>)))
  @@ ("src/c.ts" :> File(10, Stmts(IF cyclic THEN <<"./d">> ELSE <<"./e">>)))
  @@ ("src/d.ts" :> File(10, <<>>))
  @@ ("src/e.ts" :> File(10, <<>>))

OrderWorlds ==
  {[fs |-> OrderFs(cyclic), faulty |-> {}, inputs |-> {"src/a.ts"}] :
     cyclic \in BOOLEAN}

\* the manifest of node_modules/sonner, by kind: it names its types entry
\* in `types`, in `typings` or in both, names none, names a file that does
\* not exist, is no JSON, or is missing
ManifestKinds == {"types", "typings", "both", "noentry", "dangling", "unparsable", "missing"}

Manifest(kind) ==
  CASE kind = "types" -> JsonFile(Json([types |-> "p1/p2/p3/y3.d.ts"]))
    [] kind = "typings" -> JsonFile(Json([typings |-> "p1/p2/p3/y3.d.ts"]))
    [] kind = "both" -> JsonFile(Json([types |-> "p1/p2/p3/y3.d.ts",
                                       typings |-> "p1/p2/p3/z3.d.ts"]))
    [] kind = "noentry" -> JsonFile(Json([name |-> "sonner"]))
    [] kind = "dangling" -> JsonFile(Json([types |-> "gone.d.ts"]))
    [] OTHER -> JsonFile(NoJson)

\* react is installed with type stubs, nested four directories deep, and
\* with a directory of its own; sonner has only its own directory, nested
\* three directories deep, the manifest naming a file of the innermost one
PackageFs(kind) ==
  ("node_modules" :> Dir(<<Entry("@types", TRUE), Entry("react", TRUE),
                           Entry("sonner", TRUE)>>))
  @@ ("node_modules/@types" :> Dir(<<Entry("react", TRUE)>>))
  @@ ("node_modules/@types/react" :> Dir(<<Entry("index.d.ts", FALSE), Entry("l1", TRUE)>>))
  @@ ("node_modules/@types/react/index.d.ts" :> File(10, <<>>))
  @@ ("node_modules/@types/react/l1" :> Dir(<<Entry("x1.d.ts", FALSE), Entry("l2", TRUE)>>))
  @@ ("node_modules/@types/react/l1/x1.d.ts" :> File(10, <<>>))
  @@ ("node_modules/@types/react/l1/l2" :> Dir(<<Entry("x2.d.ts", FALSE), Entry("l3", TRUE)>>))
  @@ ("node_modules/@types/react/l1/l2/x2.d.ts" :> File(10, <<>>))
  @@ ("node_modules/@types/react/l1/l2/l3" :>
        Dir(<<Entry("x3.d.ts", FALSE), Entry("l4", TRUE)>>))
  @@ ("node_modules/@types/react/l1/l2/l3/x3.d.ts" :> File(10, <<>>))
  @@ ("node_modules/@types/react/l1/l2/l3/l4" :> Dir(<<Entry("x4.d.ts", FALSE)>>))
  @@ ("node_modules/@types/react/l1/l2/l3/l4/x4.d.ts" :> File(10, <<>>))
  @@ ("node_modules/react" :> Dir(<<Entry("package.json", FALSE), Entry("index.d.ts", FALSE)>>))
  @@ ("node_modules/react/package.json" :> JsonFile(Json([types |-> "index.d.ts"])))
  @@ ("node_modules/react/index.d.ts" :> File(10, <<>>))
  @@ ("node_modules/sonner" :>
        Dir((IF kind = "missing" THEN <<>> ELSE <<Entry("package.json", FALSE)>>)
            \o <<Entry("side.d.ts", FALSE), Entry("p1", TRUE)>>))
  @@ (IF kind = "missing" THEN <<>>
      ELSE ("node_modules/sonner/package.json" :> Manifest(kind)))
  @@ ("node_modules/sonner/side.d.ts" :> File(10, <<>>))
  @@ ("node_modules/sonner/p1" :> Dir(<<Entry("y1.d.ts", FALSE), Entry("p2", TRUE)>>))
  @@ ("node_modules/sonner/p1/y1.d.ts" :> File(10, <<>>))
  @@ ("node_modules/sonner/p1/p2" :> Dir(<<Entry("y2.d.ts", FALSE), Entry("p3", TRUE)>>))
  @@ ("node_modules/sonner/p1/p2/y2.d.ts" :> File(10, <<>>))
  @@ ("node_modules/sonner/p1/p2/p3" :>
        Dir(<<Entry("y3.d.ts", FALSE), Entry("z3.d.ts", FALSE)>>))
  @@ ("node_modules/sonner/p1/p2/p3/y3.d.ts" :> File(10, <<>>))
  @@ ("node_modules/sonner/p1/p2/p3/z3.d.ts" :> File(10, <<>>))
  @@ ("src" :> Dir(<<Entry("a.ts", FALSE)>>))
  @@ ("src/a.ts" :> File(10, <<>>))

PackageWorlds ==
  {[fs |-> PackageFs(kind), faulty |-> {}, inputs |-> {"src/a.ts"}] :
     kind \in ManifestKinds}

\* type stubs of two packages outside the priority list; in the second
\* project exists('node_modules/@types/lodash') is rejected
StubsFs ==
  ("node_modules" :> Dir(<<Entry("@types", TRUE)>>))
  @@ ("node_modules/@types" :>
        Dir(<<Entry("lodash", TRUE), Entry("react", TRUE), Entry("zod", TRUE)>>))
  @@ ("node_modules/@types/lodash" :> Dir(<<Entry("index.d.ts", FALSE)>>))
  @@ ("node_modules/@types/lodash/index.d.ts" :> File(10, <<>>))
  @@ ("node_modules/@types/react" :> Dir(<<Entry("index.d.ts", FALSE)>>))
  @@ ("node_modules/@types/react/index.d.ts" :> File(10, <<>>))
  @@ ("node_modules/@types/zod" :> Dir(<<Entry("index.d.ts", FALSE)>>))
  @@ ("node_modules/@types/zod/index.d.ts" :> File(10, <<>>))
  @@ ("src" :> Dir(<<Entry("a.ts", FALSE)>>))
  @@ ("src/a.ts" :> File(10, <<>>))

StubsWorlds ==
  {[fs |-> StubsFs, faulty |-> faulty, inputs |-> {"src/a.ts"}] :
     faulty \in {{}, {<<"exists", "node_modules/@types/lodash">>}}}

\* src/ with hidden entries, each of the directories the crawler skips, a
\* file and a directory whose names only resemble those, a file that is no
\* declaration file, and directories nested six deep
SkipFs ==
  LET Only(name) == Dir(<<Entry(name, FALSE)>>)
      skipped == <<".git", "test", "tests", "__tests__", "examples", "docs">>
      nest == <<"src/n1", "src/n1/n2", "src/n1/n2/n3", "src/n1/n2/n3/n4",
                "src/n1/n2/n3/n4/n5", "src/n1/n2/n3/n4/n5/n6">>
  IN ("src" :> Dir(<<Entry(".hidden.d.ts", FALSE), Entry("a.ts", FALSE)>>
                   \o [k \in 1..6 |-> Entry(skipped[k], TRUE)]
                   \o <<Entry("ok", TRUE), Entry("n1", TRUE)>>))
     @@ ("src/.hidden.d.ts" :> File(10, <<>>))
     @@ ("src/a.ts" :> File(10, <<>>))
     @@ [p \in {"src/" \o skipped[k] : k \in 1..6} |-> Only("t.d.ts")]
     @@ [p \in {"src/" \o skipped[k] \o "/t.d.ts" : k \in 1..6} |-> File(10, <<>>)]
     @@ ("src/ok" :> Dir(<<Entry("ok.d.ts", FALSE), Entry("plain.ts", FALSE),
                          Entry("docs.d.ts", FALSE), Entry("testing", TRUE)>>))
     @@ ("src/ok/ok.d.ts" :> File(10, <<>>))
     @@ ("src/ok/plain.ts" :> File(10, <<>>))
     @@ ("src/ok/docs.d.ts" :> File(10, <<>>))
     @@ ("src/ok/testing" :> Only("in.d.ts"))
     @@ ("src/ok/testing/in.d.ts" :> File(10, <<>>))
     @@ [p \in {nest[k] : k \in 1..5} |->
           LET k == CHOOSE k \in 1..5 : nest[k] = p
           IN Dir(<<Entry("v.d.ts", FALSE), Entry("n" \o Digit(k + 1), TRUE)>>)]
     @@ (nest[6] :> Only("v.d.ts"))
     @@ [p \in {nest[k] \o "/v.d.ts" : k \in 1..6} |-> File(10, <<>>)]

SkipWorlds == {[fs |-> SkipFs, faulty |-> {}, inputs |-> {"src/a.ts"}]}

\* src/app.ts imports './gone', './bad' and './x': no candidate of src/gone
\* exists, src/bad.ts and src/x.ts exist; the calls for src/bad are
\* rejected, either every exists() or the readFile(); the host also opens
\* src/none.ts, which does not exist
MissFs ==
  ("src" :> Dir(<<Entry("app.ts", FALSE), Entry("bad.ts", FALSE), Entry("x.ts", FALSE)>>))
  @@ ("src/app.ts" :> File(10, Stmts(<<"./gone", "./bad", "./x">>)))
  @@ ("src/bad.ts" :> File(10, <<>>))
  @@ ("src/x.ts" :> File(10, <<>>))

MissFaults ==
  {{<<"exists", "src/bad" \o Extensions[k]>> : k \in DOMAIN Extensions},
   {<<"readFile", "src/bad.ts">>},
   {<<"exists", "src/none.ts" \o Extensions[k]>> : k \in DOMAIN Extensions}}

MissWorlds ==
  {[fs |-> MissFs, faulty |-> faulty, inputs |-> {"src/app.ts", "src/none.ts"}] :
     faulty \in MissFaults}

\* src/app.ts has one statement of the given form with the specifier './x',
\* and src/x.ts exists
FormFs(form) ==
  ("src" :> Dir(<<Entry("app.ts", FALSE), Entry("x.ts", FALSE)>>))
  @@ ("src/app.ts" :> File(10, <<[form |-> form, spec |-> "./x"]>>))
  @@ ("src/x.ts" :> File(10, <<>>))

FormWorlds ==
  {[fs |-> FormFs(form), faulty |-> {}, inputs |-> {"src/app.ts"}] :
     form \in MatchedForms \cup UnmatchedForms}

\* tsconfig.json documents as text, each with the same text without its
\* comments: one with the alias '@/*' alone; one where an include glob
\* follows the alias; one with a URL value; one where a later key holds
\* '*/'; and one with a line comment and a block comment
ConfigDocs ==
  LET alone == "{\"compilerOptions\":{\"baseUrl\":\".\",\"paths\":{\"@/*\":[\"src/*\"]}}}"
      glob == "{\"compilerOptions\":{\"baseUrl\":\".\",\"paths\":{\"@/*\":[\"src/*\"]}},"
                \o "\"include\":[\"src/**/*\"]}"
      url == "{\"$schema\":\"https://json.schemastore.org/tsconfig\","
               \o "\"compilerOptions\":{\"baseUrl\":\".\",\"paths\":{\"@/*\":[\"src/*\"]}}}"
      later == "{\"compilerOptions\":{\"baseUrl\":\"src\","
                 \o "\"paths\":{\"@/*\":[\"./*\"],\"*/x\":[\"lib/x\"]}}}"
      commented == "{\n  // aliases\n  \"compilerOptions\": {/* base */\"baseUrl\": \".\", "
                     \o "\"strict\": true, \"paths\": {\"@/*\": [\"src/*\"]}}\n}"
      uncommented == "{\n  \n  \"compilerOptions\": {\"baseUrl\": \".\", "
                       \o "\"strict\": true, \"paths\": {\"@/*\": [\"src/*\"]}}\n}"
  IN {[text |-> alone, plain |-> alone], [text |-> glob, plain |-> glob],
      [text |-> url, plain |-> url], [text |-> later, plain |-> later],
      [text |-> commented, plain |-> uncommented]}

\* src/app.ts imports '@/x' under the given tsconfig.json, and src/x.ts
\* exists
ConfigTextFs(doc) ==
  ("tsconfig.json" :> TsConfigText(doc.text, doc.plain))
  @@ ("src" :> Dir(<<Entry("app.ts", FALSE), Entry("x.ts", FALSE)>>))
  @@ ("src/app.ts" :> File(10, Stmts(<<"@/x">>)))
  @@ ("src/x.ts" :> File(10, <<>>))

ConfigTextWorlds ==
  {[fs |-> ConfigTextFs(doc), faulty |-> {}, inputs |-> {"src/app.ts"}] :
     doc \in ConfigDocs}

\* a host that resolves a path against the project root before it looks
\* the file up, so that it answers './src/a.ts' as src/a.ts, '/x.ts' as
\* x.ts and node_modules/sonner/./dist/index.d.ts as the file of dist/.
\* src/a.ts and src/b.ts import one another, main.ts in the root imports
\* './x', and the manifest of sonner names './dist/index.d.ts'
ResolvingFs ==
  LET files ==
        ("node_modules" :> Dir(<<Entry("sonner", TRUE)>>))
        @@ ("node_modules/sonner" :>
              Dir(<<Entry("package.json", FALSE), Entry("dist", TRUE)>>))
        @@ ("node_modules/sonner/package.json" :>
              JsonFile(Json([types |-> "./dist/index.d.ts"])))
        @@ ("node_modules/sonner/dist" :> Dir(<<Entry("index.d.ts", FALSE)>>))
        @@ ("node_modules/sonner/dist/index.d.ts" :> File(10, <<>>))
        @@ ("src" :> Dir(<<Entry("a.ts", FALSE), Entry("b.ts", FALSE)>>))
        @@ ("src/a.ts" :> File(11, Stmts(<<"./b">>)))
        @@ ("src/b.ts" :> File(12, Stmts(<<"./a">>)))
        @@ ("main.ts" :> File(13, Stmts(<<"./x">>)))
        @@ ("x.ts" :> File(14, <<>>))
  IN files
     @@ ("node_modules/sonner/./dist/index.d.ts" :> files["node_modules/sonner/dist/index.d.ts"])
     @@ ("./src/a.ts" :> files["src/a.ts"])
     @@ ("/x.ts" :> files["x.ts"])

ResolvingWorlds ==
  {[fs |-> ResolvingFs, faulty |-> {}, inputs |-> {"./src/a.ts", "main.ts", "x.ts"}]}

\* sonner has only its own directory; its manifest names index.d.ts, which
\* has the given length, and big.d.ts beside it is as long as the limit
BigEntryFs(len) ==
  ("node_modules" :> Dir(<<Entry("sonner", TRUE)>>))
  @@ ("node_modules/sonner" :>
        Dir(<<Entry("package.json", FALSE), Entry("index.d.ts", FALSE),
              Entry("big.d.ts", FALSE)>>))
  @@ ("node_modules/sonner/package.json" :> JsonFile(Json([types |-> "index.d.ts"])))
  @@ ("node_modules/sonner/index.d.ts" :> File(len, <<>>))
  @@ ("node_modules/sonner/big.d.ts" :> File(SizeLimit, <<>>))
  @@ ("src" :> Dir(<<Entry("a.ts", FALSE)>>))
  @@ ("src/a.ts" :> File(10, <<>>))

BigEntryWorlds ==
  {[fs |-> BigEntryFs(len), faulty |-> {}, inputs |-> {"src/a.ts"}] :
     len \in {SizeLimit - 1, SizeLimit, SizeLimit + 1}}

\* specifiers that climb above the project root: main.ts in the root
\* imports '../y' and '@/s' under {"@/*": ["../shared/*"]}; src/deep/m.ts
\* imports '../../../x' and './../n'
ClimbFs ==
  ("tsconfig.json" :> TsConfig(".", <<Alias("@/*", <<"../shared/*">>)>>))
  @@ ("main.ts" :> File(10, Stmts(<<"../y", "@/s">>)))
  @@ ("x.ts" :> File(10, <<>>))
  @@ ("y.ts" :> File(10, <<>>))
  @@ ("shared" :> Dir(<<Entry("s.ts", FALSE)>>))
  @@ ("shared/s.ts" :> File(10, <<>>))
  @@ ("src" :> Dir(<<Entry("n.ts", FALSE), Entry("deep", TRUE)>>))
  @@ ("src/n.ts" :> File(10, <<>>))
  @@ ("src/deep" :> Dir(<<Entry("m.ts", FALSE)>>))
  @@ ("src/deep/m.ts" :> File(10, Stmts(<<"../../../x", "./../n">>)))

ClimbWorlds ==
  {[fs |-> ClimbFs, faulty |-> {}, inputs |-> {"main.ts", "src/deep/m.ts"}]}

\* how many levels of src/l/l/... the host answers
LinkLevels == SrcCrawlDepth + 3

\* src followed by k times /l
RECURSIVE LinkDir(_)
LinkDir(k) == IF k = 0 THEN "src" ELSE LinkDir(k - 1) \o "/l"

\* src/l is a link to src: every src/l/.../l lists what src lists, the
\* link l, a.d.ts and m.ts, and a file is answered under each of them
CycleFs ==
  LET dirs == {LinkDir(k) : k \in 0..LinkLevels}
  IN [p \in dirs \cup {d \o "/a.d.ts" : d \in dirs} \cup {d \o "/m.ts" : d \in dirs} |->
        IF p \in dirs
          THEN Dir(<<Entry("a.d.ts", FALSE), Entry("l", TRUE), Entry("m.ts", FALSE)>>)
          ELSE File(10, <<>>)]

CycleWorlds == {[fs |-> CycleFs, faulty |-> {}, inputs |-> {"src/m.ts"}]}

\* the projects of the sessions with overlapping loads: src/a.ts imports
\* './b'; in the second one the entry point src/index.ts imports both too;
\* in the third one src/app.ts imports '@/x' under the alias '@/*'
ConcWorlds ==
  {[fs |-> GraphFs(<<"./b">>, <<>>, <<>>), faulty |-> {},
    inputs |-> {"src/a.ts", "src/b.ts"}],
   [fs |-> ProjectFs, faulty |-> {}, inputs |-> {"src/a.ts"}],
   [fs |-> PrefixFs("@/"), faulty |-> {}, inputs |-> {"src/app.ts"}]}

\* the projects of the sessions with one load at a time
SeqWorlds ==
  GraphWorlds \cup ChainWorlds \cup UtilsWorlds \cup TargetsWorlds \cup ProjectWorlds
    \cup NoConfigWorlds \cup CrawlWorlds \cup PackageFaultWorlds \cup PrefixWorlds
    \cup RootWorlds \cup ReentryWorlds \cup IndexWorlds \cup OrderWorlds \cup PackageWorlds
    \cup StubsWorlds \cup SkipWorlds \cup MissWorlds \cup FormWorlds
    \cup ConfigTextWorlds \cup ResolvingWorlds \cup BigEntryWorlds \cup ClimbWorlds
    \cup CycleWorlds

\* every project, numbered
Worlds == GraphWorldSeq \o SetToSeq((SeqWorlds \cup ConcWorlds) \ GraphWorlds)

WorldIds(W) == {k \in DOMAIN Worlds : Worlds[k] \in W}

\* the project's files behind window.gitton.fs: path -> entry
fs == Worlds[world].fs

\* the <<operation, path>> calls of window.gitton.fs that reject
faulty == Worlds[world].faulty

\* the filenames the host sends in setContent messages
inputs == Worlds[world].inputs

\* fs.exists(path): None when the call rejects
Exists(path) ==
  IF <<"exists", path>> \in faulty THEN None ELSE Some(path \in DOMAIN fs)

\* fs.readFile(path): the content, None when the call rejects
ReadFile(path) ==
  IF <<"readFile", path>> \in faulty \/ path \notin DOMAIN fs THEN None
  ELSE IF fs[path].kind # "file" THEN None
  ELSE Some(fs[path])

\* fs.readdir(path): the entries, None when the call rejects
Readdir(path) ==
  IF <<"readdir", path>> \in faulty \/ path \notin DOMAIN fs THEN None
  ELSE IF fs[path].kind # "dir" THEN None
  ELSE Some(fs[path].entries)

(***************************************************************************)
(* Call stacks.  A frame is one suspended async call: fn is the function,  *)
(* pc names the await it is suspended at.                                  *)
(***************************************************************************)

Frame(fn, pc, arg, depth, maxDepth) ==
  [fn |-> fn, pc |-> pc, arg |-> arg, depth |-> depth, maxDepth |-> maxDepth,
   i |-> 1, j |-> 1, fullPath |-> "", matches |-> <<>>, entries |-> <<>>]

NoCall == [path |-> "", depth |-> -1, task |-> -1, spec |-> ""]

\* the part of the state one step of task t works on
Machine(t) ==
  [task |-> t, stack |-> tasks[t], loadedFiles |-> loadedFiles,
   extraLibs |-> extraLibs, io |-> io, scanned |-> scanned,
   pkgCalls |-> pkgCalls, lastLoadCall |-> NoCall]

Top(m) == m.stack[Len(m.stack)]
Push(m, f) == [m EXCEPT !.stack = Append(@, f)]
SetTop(m, f) == [m EXCEPT !.stack = [@ EXCEPT ![Len(@)] = f]]
\* the async function returns: its promise resolves and the caller resumes
\* in a later step
Return(m) == [m EXCEPT !.stack = SubSeq(@, 1, Len(@) - 1)]

Bump(bag, k) ==
  IF k \in DOMAIN bag THEN [bag EXCEPT ![k] = @ + 1] ELSE bag @@ (k :> 1)

\* the call window.gitton.fs.<op>(path), awaited by the function on top
Issue(m, op, path) == [m EXCEPT !.io = Bump(@, <<Top(m).fn, op, path>>)]

Commit(m) ==
  /\ tasks' = [tasks EXCEPT ![m.task] = m.stack]
  /\ loadedFiles' = m.loadedFiles
  /\ extraLibs' = m.extraLibs
  /\ io' = m.io
  /\ scanned' = m.scanned
  /\ pkgCalls' = m.pkgCalls
  /\ lastLoadCall' = m.lastLoadCall

Running(t, fn, pc) ==
  /\ Len(tasks[t]) > 0
  /\ tasks[t][Len(tasks[t])].fn = fn
  /\ tasks[t][Len(tasks[t])].pc = pc

(***************************************************************************)
(* addFileToMonaco                                                         *)
(***************************************************************************)

Uri(filePath) == "file:///" \o filePath

\* the body of addFileToMonaco; it contains no await.  `by` is the calling
\* function.  The two addExtraLib calls (typescriptDefaults,
\* javascriptDefaults) take the same arguments and are one log entry.
\* the entry of the log for one addExtraLib(content, uri); by and task name
\* the function and the call chain that made it
Lib(m, filePath, content, by) ==
  [uri |-> Uri(filePath), content |-> content, by |-> by, task |-> m.task]

\* addFileToMonaco without `if (loadedFiles.has(filePath)) return`
AddFileToMonacoUnchecked(m, filePath, content, by) ==
  [m EXCEPT !.loadedFiles = @ \cup {filePath},
            !.extraLibs = Append(@, Lib(m, filePath, content, by))]

\* addFileToMonaco over a set that is cleared before the add
AddFileToMonacoClearing(m, filePath, content, by) ==
  IF filePath \in m.loadedFiles THEN m
  ELSE [m EXCEPT !.loadedFiles = {filePath},
                 !.extraLibs = Append(@, Lib(m, filePath, content, by))]

AddFileToMonaco(m, filePath, content, by) ==
  IF filePath \in m.loadedFiles THEN m
  ELSE [m EXCEPT !.loadedFiles = @ \cup {filePath},
                 !.extraLibs = Append(@, Lib(m, filePath, content, by))]

(***************************************************************************)
(* loadSourceFile                                                          *)
(***************************************************************************)

\* `if (depth > 5) return` that returns from depth 5 on
ShortCircuitsFromLimit(loaded, filePath, depth) ==
  depth >= DepthLimit \/ filePath \in loaded

\* the two guards without `if (loadedFiles.has(filePath)) return`
ShortCircuitsOnDepthOnly(loaded, filePath, depth) == depth > DepthLimit

\* the two guards of loadSourceFile: the call returns at once
ShortCircuits(loaded, filePath, depth) ==
  depth > DepthLimit \/ filePath \in loaded

\* the call loadSourceFile(filePath, depth) up to its first await; spec is
\* the specifier the call is made for ("" for an entry point)
LoadSourceFileFrom(m, filePath, depth, spec) ==
  LET m1 == [m EXCEPT !.lastLoadCall =
               [path |-> filePath, depth |-> depth, task |-> m.task, spec |-> spec]]
  IN IF ShortCircuits(m.loadedFiles, filePath, depth) THEN m1
     ELSE LET f == [Frame("loadSourceFile", "exists", filePath, depth, 0)
                      EXCEPT !.fullPath = filePath \o Extensions[1]]
          IN Issue(Push(m1, f), "exists", f.fullPath)

CallLoadSourceFile(m, filePath, depth) == LoadSourceFileFrom(m, filePath, depth, "")

\* the for loop going on to the extension after the next one
LoadSourceFileNextExtSkipping(m, f) ==
  IF f.i + 2 > Len(Extensions) THEN Return(m)
  ELSE LET g == [f EXCEPT !.i = f.i + 2, !.pc = "exists",
                          !.fullPath = f.arg \o Extensions[f.i + 2]]
       IN Issue(SetTop(m, g), "exists", g.fullPath)

\* the for loop goes on to the extension after Extensions[f.i]
LoadSourceFileNextExt(m, f) ==
  IF f.i + 1 > Len(Extensions) THEN Return(m)
  ELSE LET g == [f EXCEPT !.i = f.i + 1, !.pc = "exists",
                          !.fullPath = f.arg \o Extensions[f.i + 1]]
       IN Issue(SetTop(m, g), "exists", g.fullPath)

\* how the loop body routes one specifier
Route(fullPath, importPath) ==
  IF IsSkippedImport(importPath) THEN "skipped"
  ELSE IF StartsWith(importPath, ".") THEN "relative"
  ELSE IF IsSome(ResolveImport(fullPath, importPath, tsconfigPaths, tsconfigBaseUrl))
    THEN "alias"
  ELSE "unresolved"

\* the loop with `continue` for a package import replaced by a call of
\* loadPackageTypes(importPath) that is not awaited
RECURSIVE LoadSourceFileScanEager(_, _, _)
LoadSourceFileScanEager(m, f, j) ==
  IF j > Len(f.matches) THEN Return(m)
  ELSE LET importPath == f.matches[j]
           r == ResolveImport(f.fullPath, importPath, tsconfigPaths, tsconfigBaseUrl)
           m1 == [m EXCEPT !.scanned = @ \cup
                    {[spec |-> importPath, route |-> Route(f.fullPath, importPath)]}]
           m2 == IF IsSkippedImport(importPath)
                   THEN [m1 EXCEPT !.pkgCalls = Append(@, importPath)] ELSE m1
       IN IF ~IsSome(r) THEN LoadSourceFileScanEager(m2, f, j + 1)
          ELSE LoadSourceFileFrom(SetTop(m2, [f EXCEPT !.j = j + 1, !.pc = "scan"]),
                                  Val(r), f.depth + 1, importPath)

\* the while loop over the matches of importRegex, from match j on: it runs
\* until the next `await loadSourceFile(...)` or to the `return` after it
RECURSIVE LoadSourceFileScan(_, _, _)
LoadSourceFileScan(m, f, j) ==
  IF j > Len(f.matches) THEN Return(m)
  ELSE LET importPath == f.matches[j]
           r == ResolveImport(f.fullPath, importPath, tsconfigPaths, tsconfigBaseUrl)
           m1 == [m EXCEPT !.scanned = @ \cup
                    {[spec |-> importPath, route |-> Route(f.fullPath, importPath)]}]
       IN IF ~IsSome(r) THEN LoadSourceFileScan(m1, f, j + 1)
          ELSE LoadSourceFileFrom(SetTop(m1, [f EXCEPT !.j = j + 1, !.pc = "scan"]),
                                  Val(r), f.depth + 1, importPath)

\* loadSourceFile without the try around the body of the extension loop:
\* a rejected exists() leaves every suspended load of the call chain
LoadSourceFileExistsUncaught(t) ==
  /\ Running(t, "loadSourceFile", "exists")
  /\ LET m == Machine(t)
         f == Top(m)
         r == Exists(f.fullPath)
     IN Commit(IF ~IsSome(r) THEN [m EXCEPT !.stack = <<>>]
               ELSE IF Val(r)
                 THEN Issue(SetTop(m, [f EXCEPT !.pc = "readFile"]), "readFile", f.fullPath)
               ELSE LoadSourceFileNextExt(m, f))
  /\ UNCHANGED <<world, tsconfigPaths, tsconfigBaseUrl, compilerOptions,
                 currentFilename, nset, probe>>

\* await window.gitton.fs.exists(fullPath) resumes
LoadSourceFileExists(t) ==
  /\ Running(t, "loadSourceFile", "exists")
  /\ LET m == Machine(t)
         f == Top(m)
         r == Exists(f.fullPath)
     IN Commit(IF IsSome(r) /\ Val(r)
                 THEN Issue(SetTop(m, [f EXCEPT !.pc = "readFile"]), "readFile", f.fullPath)
                 ELSE LoadSourceFileNextExt(m, f))
  /\ UNCHANGED <<world, tsconfigPaths, tsconfigBaseUrl, compilerOptions,
                 currentFilename, nset, probe>>

\* loadSourceFile with the try around the for loop, not inside it: a
\* rejected read ends the invocation
LoadSourceFileReadStopping(t) ==
  /\ Running(t, "loadSourceFile", "readFile")
  /\ LET m == Machine(t)
         f == Top(m)
         c == ReadFile(f.fullPath)
     IN Commit(IF ~IsSome(c) THEN Return(m)
               ELSE SetTop(AddFileToMonaco(m, f.fullPath, Val(c), "loadSourceFile"),
                           [f EXCEPT !.pc = "added",
                                     !.matches = ExtractImports(Val(c).stmts)]))
  /\ UNCHANGED <<world, tsconfigPaths, tsconfigBaseUrl, compilerOptions,
                 currentFilename, nset, probe>>

\* await window.gitton.fs.readFile(fullPath) resumes; addFileToMonaco is
\* called and awaited
LoadSourceFileRead(t) ==
  /\ Running(t, "loadSourceFile", "readFile")
  /\ LET m == Machine(t)
         f == Top(m)
         c == ReadFile(f.fullPath)
     IN Commit(IF ~IsSome(c) THEN LoadSourceFileNextExt(m, f)
               ELSE SetTop(AddFileToMonaco(m, f.fullPath, Val(c), "loadSourceFile"),
                           [f EXCEPT !.pc = "added",
                                     !.matches = ExtractImports(Val(c).stmts)]))
  /\ UNCHANGED <<world, tsconfigPaths, tsconfigBaseUrl, compilerOptions,
                 currentFilename, nset, probe>>

\* await addFileToMonaco(...) or await loadSourceFile(resolvedPath, depth + 1)
\* resumes: the scan of the content starts or goes on
LoadSourceFileResume(t) ==
  /\ \/ Running(t, "loadSourceFile", "added")
     \/ Running(t, "loadSourceFile", "scan")
  /\ LET m == Machine(t)
         f == Top(m)
     IN Commit(LoadSourceFileScan(m, f, f.j))
  /\ UNCHANGED <<world, tsconfigPaths, tsconfigBaseUrl, compilerOptions,
                 currentFilename, nset, probe>>

\* loadSourceFile(filePath, depth) run to its end with no other call chain
\* in between, as a function of the corpus L it starts on: the corpus it
\* leaves
RECURSIVE LoadSourceFileAll(_, _, _)
RECURSIVE LoadSourceFileExts(_, _, _, _)
RECURSIVE LoadSourceFileMatches(_, _, _, _, _)

LoadSourceFileAll(L, filePath, depth) ==
  IF depth > DepthLimit \/ filePath \in L THEN L
  ELSE LoadSourceFileExts(L, filePath, depth, 1)

\* the for loop over the extensions, from Extensions[i] on
LoadSourceFileExts(L, filePath, depth, i) ==
  IF i > Len(Extensions) THEN L
  ELSE LET fullPath == filePath \o Extensions[i]
       IN IF Exists(fullPath) = Some(TRUE) /\ IsSome(ReadFile(fullPath))
            THEN LoadSourceFileMatches(L \cup {fullPath}, fullPath,
                                       ExtractImports(Val(ReadFile(fullPath)).stmts),
                                       depth, 1)
            ELSE LoadSourceFileExts(L, filePath, depth, i + 1)

\* the while loop over the matches of importRegex, from match j on
LoadSourceFileMatches(L, fullPath, matches, depth, j) ==
  IF j > Len(matches) THEN L
  ELSE CHOOSE R \in
         {LoadSourceFileMatches(M, fullPath, matches, depth, j + 1) :
            M \in {LET r == ResolveImport(fullPath, matches[j], tsconfigPaths,
                                          tsconfigBaseUrl)
                   IN IF IsSome(r) THEN LoadSourceFileAll(L, Val(r), depth + 1)
                      ELSE L}} : TRUE

(***************************************************************************)
(* setContent, from a 'render' or 'setContent' message                     *)
(***************************************************************************)

\* setContent(content, filename): the editor exists from module load on;
\* the editor model it replaces is Monaco state outside this model
SetContent(filename) ==
  /\ nset' = nset + 1
  /\ currentFilename' = filename
  /\ LET m == [Machine(nset + 1) EXCEPT !.stack = <<>>]
     IN IF detectLanguage(filename) \in {"typescript", "javascript"}
          THEN Commit(CallLoadSourceFile(m, filename, 0))
          ELSE Commit(m)
  /\ UNCHANGED <<world, tsconfigPaths, tsconfigBaseUrl, compilerOptions, probe>>

(***************************************************************************)
(* loadDtsFromDir                                                          *)
(***************************************************************************)

\* loadDtsFromDir without `if (currentDepth > maxDepth) return`
CallLoadDtsFromDirUnbounded(m, dirPath, maxDepth, currentDepth) ==
  Issue(Push(m, Frame("loadDtsFromDir", "readdir", dirPath, currentDepth, maxDepth)),
        "readdir", dirPath)

\* the call loadDtsFromDir(dirPath, maxDepth, currentDepth) up to its first
\* await
CallLoadDtsFromDir(m, dirPath, maxDepth, currentDepth) ==
  IF currentDepth > maxDepth THEN m
  ELSE Issue(Push(m, Frame("loadDtsFromDir", "readdir", dirPath, currentDepth, maxDepth)),
             "readdir", dirPath)

\* `content.length <= 500 * 1024`
PassesSizeFilterInclusive(content) == content.len <= SizeLimit

\* the declaration file is registered only below the size limit
PassesSizeFilter(content) == content.len < SizeLimit

\* the for loop calling loadDtsFromDir(fullPath, maxDepth, currentDepth)
\* for a subdirectory, without the `+ 1`
RECURSIVE LoadDtsLoopSameDepth(_, _, _)
LoadDtsLoopSameDepth(m, f, k) ==
  IF k > Len(f.entries) THEN Return(m)
  ELSE LET entry == f.entries[k]
           fullPath == IF f.arg # "" THEN f.arg \o "/" \o entry.name ELSE entry.name
       IN IF StartsWith(entry.name, ".") THEN LoadDtsLoopSameDepth(m, f, k + 1)
          ELSE IF entry.isDirectory
            THEN IF entry.name \in HeavyDirs THEN LoadDtsLoopSameDepth(m, f, k + 1)
                 ELSE CallLoadDtsFromDir(SetTop(m, [f EXCEPT !.i = k + 1, !.pc = "loop"]),
                                         fullPath, f.maxDepth, f.depth)
          ELSE IF EndsWith(entry.name, ".d.ts")
            THEN Issue(SetTop(m, [f EXCEPT !.i = k, !.pc = "readFile", !.fullPath = fullPath]),
                       "readFile", fullPath)
          ELSE LoadDtsLoopSameDepth(m, f, k + 1)

\* the for loop over the entries, from entry k on: it runs until the next
\* await or to the end of the function
RECURSIVE LoadDtsLoop(_, _, _)
LoadDtsLoop(m, f, k) ==
  IF k > Len(f.entries) THEN Return(m)
  ELSE LET entry == f.entries[k]
           fullPath == IF f.arg # "" THEN f.arg \o "/" \o entry.name ELSE entry.name
       IN IF StartsWith(entry.name, ".") THEN LoadDtsLoop(m, f, k + 1)
          ELSE IF entry.isDirectory
            THEN IF entry.name \in HeavyDirs THEN LoadDtsLoop(m, f, k + 1)
                 ELSE CallLoadDtsFromDir(SetTop(m, [f EXCEPT !.i = k + 1, !.pc = "loop"]),
                                         fullPath, f.maxDepth, f.depth + 1)
          ELSE IF EndsWith(entry.name, ".d.ts")
            THEN Issue(SetTop(m, [f EXCEPT !.i = k, !.pc = "readFile", !.fullPath = fullPath]),
                       "readFile", fullPath)
          ELSE LoadDtsLoop(m, f, k + 1)

\* await window.gitton.fs.readdir(dirPath) resumes
LoadDtsReaddir(t) ==
  /\ Running(t, "loadDtsFromDir", "readdir")
  /\ LET m == Machine(t)
         f == Top(m)
         r == Readdir(f.arg)
     IN Commit(IF ~IsSome(r) THEN Return(m)
               ELSE LoadDtsLoop(m, [f EXCEPT !.entries = Val(r)], 1))
  /\ UNCHANGED <<world, tsconfigPaths, tsconfigBaseUrl, compilerOptions,
                 currentFilename, nset, probe>>

\* loadDtsFromDir without the try around readFile: a read that rejects
\* is caught by the try around the loop and ends it
LoadDtsReadEndingLoop(t) ==
  /\ Running(t, "loadDtsFromDir", "readFile")
  /\ LET m == Machine(t)
         f == Top(m)
         c == ReadFile(f.fullPath)
     IN Commit(IF ~IsSome(c) THEN Return(m)
               ELSE IF PassesSizeFilter(Val(c))
                 THEN SetTop(AddFileToMonaco(m, f.fullPath, Val(c), "loadDtsFromDir"),
                             [f EXCEPT !.i = f.i + 1, !.pc = "loop"])
               ELSE LoadDtsLoop(m, f, f.i + 1))
  /\ UNCHANGED <<world, tsconfigPaths, tsconfigBaseUrl, compilerOptions,
                 currentFilename, nset, probe>>

\* await window.gitton.fs.readFile(fullPath) resumes
LoadDtsRead(t) ==
  /\ Running(t, "loadDtsFromDir", "readFile")
  /\ LET m == Machine(t)
         f == Top(m)
         c == ReadFile(f.fullPath)
     IN Commit(IF ~IsSome(c) THEN LoadDtsLoop(m, f, f.i + 1)
               ELSE IF PassesSizeFilter(Val(c))
                 THEN SetTop(AddFileToMonaco(m, f.fullPath, Val(c), "loadDtsFromDir"),
                             [f EXCEPT !.i = f.i + 1, !.pc = "loop"])
               ELSE LoadDtsLoop(m, f, f.i + 1))
  /\ UNCHANGED <<world, tsconfigPaths, tsconfigBaseUrl, compilerOptions,
                 currentFilename, nset, probe>>

\* await addFileToMonaco(...) or await loadDtsFromDir(fullPath, ...) resumes
LoadDtsResume(t) ==
  /\ Running(t, "loadDtsFromDir", "loop")
  /\ LET m == Machine(t)
         f == Top(m)
     IN Commit(LoadDtsLoop(m, f, f.i))
  /\ UNCHANGED <<world, tsconfigPaths, tsconfigBaseUrl, compilerOptions,
                 currentFilename, nset, probe>>

(***************************************************************************)
(* loadPackageTypes                                                        *)
(***************************************************************************)

\* obj[key] || dflt for a parsed JSON object
FieldOr(obj, key, dflt) ==
  IF key \in DOMAIN obj THEN (IF obj[key] = "" THEN dflt ELSE obj[key]) ELSE dflt

\* the call loadPackageTypes(packageName) up to its first await
CallLoadPackageTypes(m, packageName) ==
  LET typesPath == "node_modules/@types/" \o packageName
      f == [Frame("loadPackageTypes", "typesExists", packageName, 0, 0)
              EXCEPT !.fullPath = typesPath]
  IN Issue(Push([m EXCEPT !.pkgCalls = Append(@, packageName)], f), "exists", typesPath)

\* an exception leaves loadPackageTypes (its fs.exists calls are in no try):
\* the call in the @types loop of loadAllNodeModulesTypes is inside that
\* function's try, whose catch falls through to its end; the call in the
\* priority loop is not, and the exception ends the whole chain at the
\* .catch of initTypeSystem()
LoadPackageTypesThrow(m) ==
  LET n == Len(m.stack)
  IN IF n >= 2 /\ m.stack[n - 1].fn = "loadAllNodeModulesTypes"
              /\ m.stack[n - 1].pc = "entries"
       THEN [m EXCEPT !.stack = SubSeq(@, 1, n - 2)]
       ELSE [m EXCEPT !.stack = <<>>]

\* the crawl of the package directory made only after the types entry was
\* registered
LoadPackageTypesCrawlAfterEntry(m, f) ==
  IF f.pc = "typesFileAdded"
    THEN CallLoadDtsFromDir(SetTop(m, [f EXCEPT !.pc = "packageCrawl"]),
                            "node_modules/" \o f.arg, PackageCrawlDepth, 0)
    ELSE Return(m)

\* `await loadDtsFromDir(packagePath, 2)`, the last statement
LoadPackageTypesCrawl(m, f) ==
  CallLoadDtsFromDir(SetTop(m, [f EXCEPT !.pc = "packageCrawl"]),
                     "node_modules/" \o f.arg, PackageCrawlDepth, 0)

\* await window.gitton.fs.exists(typesPath) resumes
LoadPackageTypesTypesExists(t) ==
  /\ Running(t, "loadPackageTypes", "typesExists")
  /\ LET m == Machine(t)
         f == Top(m)
         r == Exists(f.fullPath)
         packagePath == "node_modules/" \o f.arg
     IN Commit(IF ~IsSome(r) THEN LoadPackageTypesThrow(m)
               ELSE IF Val(r)
                 THEN CallLoadDtsFromDir(SetTop(m, [f EXCEPT !.pc = "typesCrawl"]),
                                         f.fullPath, TypesCrawlDepth, 0)
               ELSE Issue(SetTop(m, [f EXCEPT !.pc = "packageExists"]),
                          "exists", packagePath))
  /\ UNCHANGED <<world, tsconfigPaths, tsconfigBaseUrl, compilerOptions,
                 currentFilename, nset, probe>>

\* loadPackageTypes without the `return` after the crawl of the type stubs
LoadPackageTypesReturnFallingThrough(t) ==
  /\ \/ Running(t, "loadPackageTypes", "typesCrawl")
     \/ Running(t, "loadPackageTypes", "packageCrawl")
  /\ LET m == Machine(t)
         f == Top(m)
     IN Commit(IF f.pc = "typesCrawl"
                 THEN Issue(SetTop(m, [f EXCEPT !.pc = "packageExists"]),
                            "exists", "node_modules/" \o f.arg)
                 ELSE Return(m))
  /\ UNCHANGED <<world, tsconfigPaths, tsconfigBaseUrl, compilerOptions,
                 currentFilename, nset, probe>>

\* await loadDtsFromDir(typesPath, 3) resumes: return.  Or await
\* loadDtsFromDir(packagePath, 2) resumes: the function ends
LoadPackageTypesReturn(t) ==
  /\ \/ Running(t, "loadPackageTypes", "typesCrawl")
     \/ Running(t, "loadPackageTypes", "packageCrawl")
  /\ Commit(Return(Machine(t)))
  /\ UNCHANGED <<world, tsconfigPaths, tsconfigBaseUrl, compilerOptions,
                 currentFilename, nset, probe>>

\* await window.gitton.fs.exists(packagePath) resumes
LoadPackageTypesPackageExists(t) ==
  /\ Running(t, "loadPackageTypes", "packageExists")
  /\ LET m == Machine(t)
         f == Top(m)
         packagePath == "node_modules/" \o f.arg
         r == Exists(packagePath)
     IN Commit(IF ~IsSome(r) THEN LoadPackageTypesThrow(m)
               ELSE IF Val(r)
                 THEN Issue(SetTop(m, [f EXCEPT !.pc = "packageJson"]),
                            "readFile", packagePath \o "/package.json")
               ELSE Return(m))
  /\ UNCHANGED <<world, tsconfigPaths, tsconfigBaseUrl, compilerOptions,
                 currentFilename, nset, probe>>

\* await window.gitton.fs.readFile(`${packagePath}/package.json`) resumes
LoadPackageTypesPackageJson(t) ==
  /\ Running(t, "loadPackageTypes", "packageJson")
  /\ LET m == Machine(t)
         f == Top(m)
         packagePath == "node_modules/" \o f.arg
         c == ReadFile(packagePath \o "/package.json")
         typesFile == FieldOr(Val(c).json.value, "types",
                              FieldOr(Val(c).json.value, "typings", ""))
         typesPath == packagePath \o "/" \o typesFile
     IN Commit(IF ~IsSome(c) THEN LoadPackageTypesCrawl(m, f)
               ELSE IF ~Val(c).json.ok THEN LoadPackageTypesCrawl(m, f)
               ELSE IF typesFile = "" THEN LoadPackageTypesCrawl(m, f)
               ELSE Issue(SetTop(m, [f EXCEPT !.pc = "typesFileExists",
                                              !.fullPath = typesPath]),
                          "exists", typesPath))
  /\ UNCHANGED <<world, tsconfigPaths, tsconfigBaseUrl, compilerOptions,
                 currentFilename, nset, probe>>

\* await window.gitton.fs.exists(typesPath) resumes, inside the try
LoadPackageTypesTypesFileExists(t) ==
  /\ Running(t, "loadPackageTypes", "typesFileExists")
  /\ LET m == Machine(t)
         f == Top(m)
         r == Exists(f.fullPath)
     IN Commit(IF IsSome(r) /\ Val(r)
                 THEN Issue(SetTop(m, [f EXCEPT !.pc = "typesFileRead"]),
                            "readFile", f.fullPath)
                 ELSE LoadPackageTypesCrawl(m, f))
  /\ UNCHANGED <<world, tsconfigPaths, tsconfigBaseUrl, compilerOptions,
                 currentFilename, nset, probe>>

\* await window.gitton.fs.readFile(typesPath) resumes, inside the try
LoadPackageTypesTypesFileRead(t) ==
  /\ Running(t, "loadPackageTypes", "typesFileRead")
  /\ LET m == Machine(t)
         f == Top(m)
         c == ReadFile(f.fullPath)
     IN Commit(IF ~IsSome(c) THEN LoadPackageTypesCrawl(m, f)
               ELSE SetTop(AddFileToMonaco(m, f.fullPath, Val(c), "loadPackageTypes"),
                           [f EXCEPT !.pc = "typesFileAdded"]))
  /\ UNCHANGED <<world, tsconfigPaths, tsconfigBaseUrl, compilerOptions,
                 currentFilename, nset, probe>>

\* await addFileToMonaco(typesPath, content) resumes
LoadPackageTypesTypesFileAdded(t) ==
  /\ Running(t, "loadPackageTypes", "typesFileAdded")
  /\ LET m == Machine(t)
     IN Commit(LoadPackageTypesCrawl(m, Top(m)))
  /\ UNCHANGED <<world, tsconfigPaths, tsconfigBaseUrl, compilerOptions,
                 currentFilename, nset, probe>>

(***************************************************************************)
(* loadAllNodeModulesTypes                                                 *)
(***************************************************************************)

\* the call loadAllNodeModulesTypes() up to its first await: the first
\* iteration of the loop over priorityPackages
CallLoadAllNodeModulesTypes(m) ==
  CallLoadPackageTypes(Push(m, Frame("loadAllNodeModulesTypes", "priority", "", 0, 0)),
                       PriorityPackages[1])

\* the loop over the entries of node_modules/@types, from entry k on
RECURSIVE LoadAllEntriesLoop(_, _, _)
LoadAllEntriesLoop(m, f, k) ==
  IF k > Len(f.entries) THEN Return(m)
  ELSE LET entry == f.entries[k]
       IN IF entry.isDirectory /\ ~Includes(PriorityPackages, entry.name)
            THEN CallLoadPackageTypes(SetTop(m, [f EXCEPT !.i = k + 1, !.pc = "entries"]),
                                      entry.name)
            ELSE LoadAllEntriesLoop(m, f, k + 1)

\* await loadPackageTypes(pkg) of the priority loop resumes
LoadAllPriority(t) ==
  /\ Running(t, "loadAllNodeModulesTypes", "priority")
  /\ LET m == Machine(t)
         f == Top(m)
     IN Commit(IF f.i + 1 <= Len(PriorityPackages)
                 THEN CallLoadPackageTypes(SetTop(m, [f EXCEPT !.i = f.i + 1]),
                                           PriorityPackages[f.i + 1])
                 ELSE Issue(SetTop(m, [f EXCEPT !.pc = "typesDirExists"]),
                            "exists", "node_modules/@types"))
  /\ UNCHANGED <<world, tsconfigPaths, tsconfigBaseUrl, compilerOptions,
                 currentFilename, nset, probe>>

\* await window.gitton.fs.exists(typesDir) resumes, inside the try
LoadAllTypesDirExists(t) ==
  /\ Running(t, "loadAllNodeModulesTypes", "typesDirExists")
  /\ LET m == Machine(t)
         f == Top(m)
         r == Exists("node_modules/@types")
     IN Commit(IF IsSome(r) /\ Val(r)
                 THEN Issue(SetTop(m, [f EXCEPT !.pc = "typesDirReaddir"]),
                            "readdir", "node_modules/@types")
                 ELSE Return(m))
  /\ UNCHANGED <<world, tsconfigPaths, tsconfigBaseUrl, compilerOptions,
                 currentFilename, nset, probe>>

\* await window.gitton.fs.readdir(typesDir) resumes, inside the try
LoadAllTypesDirReaddir(t) ==
  /\ Running(t, "loadAllNodeModulesTypes", "typesDirReaddir")
  /\ LET m == Machine(t)
         f == Top(m)
         r == Readdir("node_modules/@types")
     IN Commit(IF ~IsSome(r) THEN Return(m)
               ELSE LoadAllEntriesLoop(m, [f EXCEPT !.entries = Val(r)], 1))
  /\ UNCHANGED <<world, tsconfigPaths, tsconfigBaseUrl, compilerOptions,
                 currentFilename, nset, probe>>

\* await loadPackageTypes(entry.name) of the @types loop resumes
LoadAllEntries(t) ==
  /\ Running(t, "loadAllNodeModulesTypes", "entries")
  /\ LET m == Machine(t)
         f == Top(m)
     IN Commit(LoadAllEntriesLoop(m, f, f.i))
  /\ UNCHANGED <<world, tsconfigPaths, tsconfigBaseUrl, compilerOptions,
                 currentFilename, nset, probe>>

(***************************************************************************)
(* loadProjectSources                                                      *)
(***************************************************************************)

\* the call loadProjectSources() up to its first await
CallLoadProjectSources(m) ==
  CallLoadSourceFile(Push(m, Frame("loadProjectSources", "entryPoints", "", 0, 0)),
                     EntryPoints[1], 0)

\* await loadSourceFile(entry) resumes
LoadProjectEntryPoints(t) ==
  /\ Running(t, "loadProjectSources", "entryPoints")
  /\ LET m == Machine(t)
         f == Top(m)
     IN Commit(IF f.i + 1 <= Len(EntryPoints)
                 THEN CallLoadSourceFile(SetTop(m, [f EXCEPT !.i = f.i + 1]),
                                         EntryPoints[f.i + 1], 0)
                 ELSE CallLoadDtsFromDir(SetTop(m, [f EXCEPT !.pc = "srcCrawl"]),
                                         "src", SrcCrawlDepth, 0))
  /\ UNCHANGED <<world, tsconfigPaths, tsconfigBaseUrl, compilerOptions,
                 currentFilename, nset, probe>>

\* await loadDtsFromDir('src', 5) resumes
LoadProjectReturn(t) ==
  /\ Running(t, "loadProjectSources", "srcCrawl")
  /\ Commit(Return(Machine(t)))
  /\ UNCHANGED <<world, tsconfigPaths, tsconfigBaseUrl, compilerOptions,
                 currentFilename, nset, probe>>

(***************************************************************************)
(* loadTsConfig                                                            *)
(***************************************************************************)

Undefined == "undefined"

Has(obj, key) == key \in DOMAIN obj

\* obj[key] ?? dflt
Nullish(obj, key, dflt) == IF Has(obj, key) THEN obj[key] ELSE dflt

\* Object.entries of the object JSON.parse builds from the members decl of
\* a JSON object, given in document order: a repeated key keeps the place
\* of its first occurrence and the value of its last
RECURSIVE ObjectEntriesFrom(_, _)
ObjectEntriesFrom(decl, k) ==
  IF k > Len(decl) THEN <<>>
  ELSE LET key == decl[k].alias
           last == CHOOSE i \in k..Len(decl) :
                     /\ decl[i].alias = key
                     /\ \A j \in (i + 1)..Len(decl) : decl[j].alias # key
       IN (IF \E i \in 1..(k - 1) : decl[i].alias = key THEN <<>>
           ELSE <<[alias |-> key, targets |-> decl[last].targets]>>)
          \o ObjectEntriesFrom(decl, k + 1)

ObjectEntries(decl) == ObjectEntriesFrom(decl, 1)

\* the record loadTsConfig builds from the compilerOptions of tsconfig.json
TsConfigOptions(opts) ==
  [target |-> "ESNext", module |-> "ESNext", moduleResolution |-> "NodeJs",
   allowNonTsExtensions |-> TRUE,
   allowJs |-> Nullish(opts, "allowJs", TRUE),
   checkJs |-> Nullish(opts, "checkJs", FALSE),
   jsx |-> IF Nullish(opts, "jsx", Undefined) = "react-jsx" THEN "ReactJSX"
           ELSE IF Nullish(opts, "jsx", Undefined) = "preserve" THEN "Preserve"
           ELSE "React",
   jsxImportSource |-> Nullish(opts, "jsxImportSource", Undefined),
   esModuleInterop |-> Nullish(opts, "esModuleInterop", TRUE),
   allowSyntheticDefaultImports |-> Nullish(opts, "allowSyntheticDefaultImports", TRUE),
   strict |-> Nullish(opts, "strict", FALSE),
   noImplicitAny |-> Nullish(opts, "noImplicitAny", FALSE),
   skipLibCheck |-> TRUE,
   baseUrl |-> Nullish(opts, "baseUrl", Undefined),
   paths |-> IF Has(opts, "paths") THEN ObjectEntries(opts.paths) ELSE <<>>,
   typeRoots |-> Nullish(opts, "typeRoots", Undefined),
   types |-> Nullish(opts, "types", Undefined)]

\* Monaco's compiler options before any setCompilerOptions call
NoOptions == [set |-> FALSE]

\* the record of the catch branch
DefaultOptions ==
  [target |-> "ESNext", module |-> "ESNext", moduleResolution |-> "NodeJs",
   allowNonTsExtensions |-> TRUE, allowJs |-> TRUE, jsx |-> "React",
   esModuleInterop |-> TRUE, allowSyntheticDefaultImports |-> TRUE,
   skipLibCheck |-> TRUE]

\* JSON.parse(tsconfigContent.replace(...)) of lines 170-171: a document
\* given as text is stripped and parsed; one given by its value, there
\* being nothing in it to strip, is that value
ParsedTsConfig(content) ==
  IF content.text = "" THEN content.json ELSE JsonParse(StripComments(content.text))

\* loadTsConfig with an empty catch branch
LoadTsConfigReadNoDefaults(t) ==
  /\ Running(t, "loadTsConfig", "readFile")
  /\ LET c == ReadFile("tsconfig.json")
         parsed == IF IsSome(c) THEN ParsedTsConfig(Val(c)) ELSE NoJson
         ok == parsed.ok
         tsconfig == parsed.value
         opts == IF Has(tsconfig, "compilerOptions") THEN tsconfig.compilerOptions ELSE <<>>
     IN /\ tsconfigPaths' = IF ~ok THEN tsconfigPaths
                            ELSE IF Has(opts, "paths") THEN ObjectEntries(opts.paths)
                            ELSE <<>>
        /\ tsconfigBaseUrl' = IF ~ok THEN tsconfigBaseUrl ELSE FieldOr(opts, "baseUrl", ".")
        /\ compilerOptions' = IF ~ok THEN compilerOptions ELSE TsConfigOptions(opts)
  /\ Commit(Return(Machine(t)))
  /\ UNCHANGED <<world, currentFilename, nset, probe>>

\* await window.gitton.fs.readFile('tsconfig.json') resumes; what is not
\* parsed, or has no readable file, takes the catch branch
LoadTsConfigRead(t) ==
  /\ Running(t, "loadTsConfig", "readFile")
  /\ LET c == ReadFile("tsconfig.json")
         parsed == IF IsSome(c) THEN ParsedTsConfig(Val(c)) ELSE NoJson
         ok == parsed.ok
         tsconfig == parsed.value
         opts == IF Has(tsconfig, "compilerOptions") THEN tsconfig.compilerOptions ELSE <<>>
     IN /\ tsconfigPaths' = IF ~ok THEN tsconfigPaths
                            ELSE IF Has(opts, "paths") THEN ObjectEntries(opts.paths)
                            ELSE <<>>
        /\ tsconfigBaseUrl' = IF ~ok THEN tsconfigBaseUrl ELSE FieldOr(opts, "baseUrl", ".")
        /\ compilerOptions' = IF ~ok THEN DefaultOptions ELSE TsConfigOptions(opts)
  /\ Commit(Return(Machine(t)))
  /\ UNCHANGED <<world, currentFilename, nset, probe>>

(***************************************************************************)
(* initTypeSystem                                                          *)
(***************************************************************************)

\* await loadTsConfig() resumes: loadAllNodeModulesTypes() is called
InitAfterTsConfigSkippingBulk(t) ==
  /\ Running(t, "initTypeSystem", "loadTsConfig")
  /\ LET m == Machine(t)
     IN Commit(CallLoadProjectSources(
                 SetTop(m, [Top(m) EXCEPT !.pc = "loadProjectSources"])))
  /\ UNCHANGED <<world, tsconfigPaths, tsconfigBaseUrl, compilerOptions,
                 currentFilename, nset, probe>>

\* await loadTsConfig() resumes: loadAllNodeModulesTypes() is called
InitAfterTsConfig(t) ==
  /\ Running(t, "initTypeSystem", "loadTsConfig")
  /\ LET m == Machine(t)
     IN Commit(CallLoadAllNodeModulesTypes(
                 SetTop(m, [Top(m) EXCEPT !.pc = "loadAllNodeModulesTypes"])))
  /\ UNCHANGED <<world, tsconfigPaths, tsconfigBaseUrl, compilerOptions,
                 currentFilename, nset, probe>>

\* await loadAllNodeModulesTypes() resumes: loadProjectSources() is called
InitAfterNodeModules(t) ==
  /\ Running(t, "initTypeSystem", "loadAllNodeModulesTypes")
  /\ LET m == Machine(t)
     IN Commit(CallLoadProjectSources(
                 SetTop(m, [Top(m) EXCEPT !.pc = "loadProjectSources"])))
  /\ UNCHANGED <<world, tsconfigPaths, tsconfigBaseUrl, compilerOptions,
                 currentFilename, nset, probe>>

\* await loadProjectSources() resumes: initTypeSystem() ends
InitReturn(t) ==
  /\ Running(t, "initTypeSystem", "loadProjectSources")
  /\ Commit(Return(Machine(t)))
  /\ UNCHANGED <<world, tsconfigPaths, tsconfigBaseUrl, compilerOptions,
                 currentFilename, nset, probe>>

\* the stack of initTypeSystem() after the module's top level has run:
\* suspended in loadTsConfig at readFile('tsconfig.json')
InitStack ==
  <<Frame("initTypeSystem", "loadTsConfig", "", 0, 0),
    Frame("loadTsConfig", "readFile", "", 0, 0)>>

(***************************************************************************)
(* Task steps                                                              *)
(***************************************************************************)

LoadSourceFileStep(t) ==
  \/ LoadSourceFileExists(t)
  \/ LoadSourceFileRead(t)
  \/ LoadSourceFileResume(t)

LoadDtsStep(t) ==
  \/ LoadDtsReaddir(t)
  \/ LoadDtsRead(t)
  \/ LoadDtsResume(t)

LoadPackageTypesStep(t) ==
  \/ LoadPackageTypesTypesExists(t)
  \/ LoadPackageTypesReturn(t)
  \/ LoadPackageTypesPackageExists(t)
  \/ LoadPackageTypesPackageJson(t)
  \/ LoadPackageTypesTypesFileExists(t)
  \/ LoadPackageTypesTypesFileRead(t)
  \/ LoadPackageTypesTypesFileAdded(t)

InitStep(t) ==
  \/ LoadTsConfigRead(t)
  \/ InitAfterTsConfig(t)
  \/ LoadAllPriority(t)
  \/ LoadAllTypesDirExists(t)
  \/ LoadAllTypesDirReaddir(t)
  \/ LoadAllEntries(t)
  \/ InitAfterNodeModules(t)
  \/ LoadProjectEntryPoints(t)
  \/ LoadProjectReturn(t)
  \/ InitReturn(t)

\* one continuation of task t runs to its next await
Step(t) ==
  \/ LoadSourceFileStep(t)
  \/ LoadDtsStep(t)
  \/ LoadPackageTypesStep(t)
  \/ InitStep(t)

Idle == \A t \in TaskIds : tasks[t] = <<>>

\* the session starts: the module's top level has run
SessionInit ==
  /\ loadedFiles = {}
  /\ extraLibs = <<>>
  /\ tsconfigPaths = <<>>
  /\ tsconfigBaseUrl = "."
  /\ compilerOptions = NoOptions
  /\ currentFilename = ""
  /\ tasks = [t \in TaskIds |-> IF t = 0 THEN InitStack ELSE <<>>]
  /\ nset = 0
  /\ io = (<<"loadTsConfig", "readFile", "tsconfig.json">> :> 1)
  /\ scanned = {}
  /\ pkgCalls = <<>>
  /\ lastLoadCall = NoCall
  /\ probe = <<>>

(***************************************************************************)
(* Specifications                                                          *)
(***************************************************************************)

\* a 'setContent' message arrives between two loads
SetContentIdle ==
  /\ Idle
  /\ nset < MaxSeqLoads
  /\ \E filename \in inputs : SetContent(filename)

InitSeq ==
  /\ world \in WorldIds(SeqWorlds)
  /\ SessionInit

NextSeq ==
  \/ \E t \in TaskIds : Step(t)
  \/ SetContentIdle

\* sessions in which the host sends setContent only while no load runs
SpecSeq == InitSeq /\ [][NextSeq]_vars

\* a 'setContent' message arrives at any time
SetContentAny ==
  /\ nset < MaxSetContent
  /\ \E filename \in inputs : SetContent(filename)

Init ==
  /\ world \in WorldIds(ConcWorlds)
  /\ SessionInit

Next ==
  \/ \E t \in TaskIds : Step(t)
  \/ SetContentAny

\* sessions in which setContent messages arrive at any time, also while
\* initTypeSystem() or an earlier load is suspended
Spec == Init /\ [][Next]_vars

(***************************************************************************)
(* addFileToMonaco called directly                                         *)
(***************************************************************************)

RegisterPaths == {"src/a.ts", "src/b.ts", "types/x.d.ts"}

RegisterContents == {File(10, <<>>), File(20, Stmts(<<"./b">>))}

\* one call addFileToMonaco(filePath, content)
Register(filePath, content) ==
  /\ Commit(AddFileToMonaco(Machine(0), filePath, content, "direct"))
  /\ probe' = [fn |-> "addFileToMonaco", path |-> filePath, content |-> content]
  /\ UNCHANGED <<world, tsconfigPaths, tsconfigBaseUrl, compilerOptions,
                 currentFilename, nset>>

\* a session in which nothing is suspended
Quiet ==
  /\ loadedFiles = {}
  /\ extraLibs = <<>>
  /\ compilerOptions = NoOptions
  /\ currentFilename = ""
  /\ tasks = [t \in TaskIds |-> <<>>]
  /\ nset = 0
  /\ io = <<>>
  /\ scanned = {}
  /\ pkgCalls = <<>>
  /\ lastLoadCall = NoCall
  /\ probe = <<>>

InitRegister ==
  /\ world = 1
  /\ tsconfigPaths = <<>>
  /\ tsconfigBaseUrl = "."
  /\ Quiet

NextRegister ==
  \E filePath \in RegisterPaths, content \in RegisterContents : Register(filePath, content)

\* addFileToMonaco called with any paths and contents, in any order
SpecRegister == InitRegister /\ [][NextRegister]_vars

(***************************************************************************)
(* resolvePathAlias called directly                                        *)
(***************************************************************************)

\* patterns of an alias table
MaxPatterns == 2

\* targets of one pattern
MaxTargets == 2

AliasPatterns == {"@/*", "@/lib/*", "~/*"}

AliasTargets == {"src/*", "lib/*"}

BaseUrls == {".", "app"}

Specifiers == {"@/lib/utils", "@/utils", "~/utils", "lodash"}

Injective(q) == \A a, b \in DOMAIN q : a # b => q[a] # q[b]

\* the alias tables: no key twice, as in a JavaScript object
AliasTables ==
  {[k \in DOMAIN keys |-> Alias(keys[k], targets[k])] :
     <<keys, targets>> \in
       UNION {{q \in [1..n -> AliasPatterns] : Injective(q)}
              \X [1..n -> SeqsUpTo(AliasTargets, MaxTargets)] : n \in 0..MaxPatterns}}

\* one call resolvePathAlias(importPath)
Resolve(importPath) ==
  /\ probe' = [fn |-> "resolvePathAlias", importPath |-> importPath,
               result |-> resolvePathAlias(tsconfigPaths, tsconfigBaseUrl, importPath)]
  /\ UNCHANGED <<world, loadedFiles, extraLibs, tsconfigPaths, tsconfigBaseUrl,
                 compilerOptions, currentFilename, tasks, nset, io, scanned,
                 pkgCalls, lastLoadCall>>

InitResolve ==
  /\ world = 1
  /\ tsconfigPaths \in AliasTables
  /\ tsconfigBaseUrl \in BaseUrls
  /\ Quiet

NextResolve == \E importPath \in Specifiers : Resolve(importPath)

\* resolvePathAlias called under any alias table
SpecResolve == InitResolve /\ [][NextResolve]_vars

(***************************************************************************)
(* Properties                                                              *)
(***************************************************************************)

\* the number of times the engine was handed filePath
FedCount(filePath) ==
  Cardinality({k \in DOMAIN extraLibs : extraLibs[k].uri = Uri(filePath)})

IsProbe(pr, fn) == "fn" \in DOMAIN pr /\ pr.fn = fn

\* what one call addFileToMonaco(probe'.path, probe'.content) must do
RegisterContract ==
  IF probe'.path \in loadedFiles
    THEN loadedFiles' = loadedFiles /\ extraLibs' = extraLibs
    ELSE /\ loadedFiles' = loadedFiles \cup {probe'.path}
         /\ extraLibs' = Append(extraLibs,
              [uri |-> Uri(probe'.path), content |-> probe'.content,
               by |-> "direct", task |-> 0])

\* C1: register is idempotent.  A call for a path that is not in the corpus
\* inserts the path and hands (path, content) to the engine; a call for a
\* path that is in the corpus, with the same or another content, changes
\* neither the corpus nor what the engine was handed; so every path of the
\* corpus was handed to the engine exactly once, with its first content.
C1_RegisterIdempotent ==
  /\ [][IsProbe(probe', "addFileToMonaco") => RegisterContract]_vars
  /\ [](\A filePath \in RegisterPaths :
          FedCount(filePath) = IF filePath \in loadedFiles THEN 1 ELSE 0)

\* C1 witness: register(p, c') was called after register(p, c), c' # c
C1_Witness ==
  /\ IsProbe(probe, "addFileToMonaco")
  /\ \E k \in DOMAIN extraLibs :
       /\ extraLibs[k].uri = Uri(probe.path)
       /\ extraLibs[k].content # probe.content

\* C2: whatever the interleaving of initTypeSystem() and the loads started
\* by setContent messages at their awaits, no path is handed to the engine
\* twice.
C2_NeverFedTwice ==
  \A j, k \in DOMAIN extraLibs : j # k => extraLibs[j].uri # extraLibs[k].uri

FramesOf(t) == {tasks[t][k] : k \in DOMAIN tasks[t]}

\* C2 witness: two call chains have read the same file and have both called
\* addFileToMonaco for it
C2_Witness ==
  \E t1, t2 \in TaskIds :
    /\ t1 # t2
    /\ \E f1 \in FramesOf(t1), f2 \in FramesOf(t2) :
         /\ f1.fn = "loadSourceFile" /\ f2.fn = "loadSourceFile"
         /\ f1.pc = "added" /\ f2.pc = "added"
         /\ f1.fullPath = f2.fullPath

Range(q) == {q[k] : k \in DOMAIN q}

\* the file loadSourceFile(stem) registers: the first of stem + extension
\* that exists and can be read
FirstFile(stem) ==
  LET hits == {k \in DOMAIN Extensions :
                 /\ Exists(stem \o Extensions[k]) = Some(TRUE)
                 /\ IsSome(ReadFile(stem \o Extensions[k]))}
  IN IF hits = {} THEN None
     ELSE Some(stem \o Extensions[CHOOSE k \in hits : \A h \in hits : k <= h])

\* the stems file p imports
ImportedStems(p) ==
  LET rs == {ResolveImport(p, spec, tsconfigPaths, tsconfigBaseUrl) :
               spec \in Range(ExtractImports(fs[p].stmts))}
  IN {Val(r) : r \in {x \in rs : IsSome(x)}}

\* the files file p imports
Imported(p) ==
  {Val(x) : x \in {y \in {FirstFile(stem) : stem \in ImportedStems(p)} : IsSome(y)}}

\* the files at most n imports away from the files of S
RECURSIVE ReachWithin(_, _)
ReachWithin(S, n) ==
  IF n = 0 THEN S
  ELSE LET R == ReachWithin(S, n - 1) IN R \cup UNION {Imported(p) : p \in R}

SourceFiles == {p \in DOMAIN fs : fs[p].kind = "file"}

Reachable(S) == ReachWithin(S, Cardinality(SourceFiles))

\* the files of the import cycles through p
CycleOf(p) == {q \in Reachable(Imported(p)) : p \in Reachable(Imported(q))}

\* no import of a file reachable from p names a file as it stands: every
\* specifier is written without its extension
Extensionless(p) ==
  \A q \in Reachable({p}) : \A stem \in ImportedStems(q) : ~IsSome(ReadFile(stem))

\* the load of the first setContent message has completed, and the corpus
\* was empty when it started
FirstLoadDone ==
  /\ nset = 1 /\ Idle
  /\ IsSome(ReadFile(currentFilename))
  /\ \A k \in DOMAIN extraLibs : extraLibs[k].task = 1

\* how far a loadSourceFile frame is through its body: the extension loop
\* with its two awaits, then the scan of the matches
Progress(f) ==
  IF f.pc = "exists" THEN 2 * f.i
  ELSE IF f.pc = "readFile" THEN 2 * f.i + 1
  ELSE IF f.pc = "added" THEN 2 * Len(Extensions) + 2
  ELSE 2 * Len(Extensions) + 2 + f.j

\* the progress of the frames of a stack, bottom first; a frame that has
\* returned, or was never called, counts as past every frame that runs
Done ==
  LET lens == {Len(ExtractImports(fs[p].stmts)) : p \in SourceFiles}
      most == CHOOSE n \in lens \cup {0} : \A h \in lens : h <= n
  IN 2 * Len(Extensions) + 2 + (most + 1) + 1

Padded(stack) ==
  [k \in 1..(DepthLimit + 1) |->
     IF k <= Len(stack) THEN Progress(stack[k]) ELSE Done]

LexLess(a, b) ==
  \E k \in DOMAIN a : a[k] < b[k] /\ \A h \in 1..(k - 1) : a[h] = b[h]

\* every step of a running load moves its stack forward in the
\* lexicographic order of Padded, which has no infinite ascending chain
LoadAdvances ==
  \A t \in TaskIds \ {0} :
    (tasks[t] # <<>> /\ tasks'[t] # tasks[t])
      => /\ LexLess(Padded(tasks[t]), Padded(tasks'[t]))
         /\ Len(tasks'[t]) <= DepthLimit + 1
         /\ \A k \in DOMAIN tasks'[t] : Progress(tasks'[t][k]) < Done

\* C3 as stated: after load(A, 0) on an empty corpus, every file of an
\* import cycle through A has been registered exactly once.
C3_CycleFilesAllRegistered ==
  FirstLoadDone => \A p \in CycleOf(currentFilename) : FedCount(p) = 1

\* C3, amended: every load terminates, each of its steps advancing a
\* bounded measure of its call stack; no file is handed to the engine
\* twice; and after load(A, 0) on an empty corpus, over extensionless
\* specifiers, the corpus is exactly the files at most 5 imports away from
\* A, each registered once, so a cycle of up to 6 files is registered whole
\* and the files of a longer cycle that are further away are not.
C3_CycleWithinDepth ==
  /\ [][LoadAdvances]_vars
  /\ [](\A p \in SourceFiles : FedCount(p) <= 1)
  /\ [](FirstLoadDone /\ Extensionless(currentFilename)
          => /\ loadedFiles = ReachWithin({currentFilename}, 5)
             /\ \A p \in loadedFiles : FedCount(p) = 1)

\* C3 witness: the load of a file of an import cycle has completed with the
\* whole cycle registered
C3_Witness ==
  /\ FirstLoadDone /\ Extensionless(currentFilename)
  /\ currentFilename \in CycleOf(currentFilename)
  /\ Cardinality(CycleOf(currentFilename)) >= 2
  /\ CycleOf(currentFilename) \subseteq loadedFiles

\* the load of src/f0.ts, the head of a chain of n files that import one
\* another in a line, has completed on a corpus that was empty
ChainLoadDone(n) ==
  /\ fs = ChainFs(n, FALSE)
  /\ currentFilename = ChainFile(0)
  /\ FirstLoadDone

\* C4 as stated: a chain of more than 5 files leaves exactly 5 files
\* registered.
C4_ChainRegistersBound ==
  \A n \in 6..MaxChain : ChainLoadDone(n) => Cardinality(loadedFiles) = 5

\* C4, amended: a chain of more than 5 files leaves exactly 6 files
\* registered, the files at depths 0 to 5; the file at depth 6 is dropped.
C4_ChainRegistersBoundPlusOne ==
  \A n \in 6..MaxChain :
    ChainLoadDone(n) => loadedFiles = {ChainFile(k) : k \in 0..5}

\* C4 witness: the load of a chain of 7 files or more has completed
C4_Witness ==
  \E n \in 7..MaxChain : ChainLoadDone(n) /\ ChainFile(5) \in loadedFiles

\* the step made the call loadSourceFile(c.path, c.depth) and the call put
\* no frame on its chain's stack
NoFrameFor(c) ==
  \/ tasks'[c.task] = <<>>
  \/ LET f == tasks'[c.task][Len(tasks'[c.task])]
     IN ~(f.fn = "loadSourceFile" /\ f.pc = "exists" /\ f.arg = c.path /\ f.depth = c.depth)

\* C5: a call loadSourceFile(path, depth) with depth > 5, or with path in
\* the corpus, returns at once: it issues no file-system call, registers
\* nothing and recurses into nothing.
C5_ShortCircuitsWithoutIo ==
  [][(lastLoadCall' # NoCall
        /\ (lastLoadCall'.depth > 5 \/ lastLoadCall'.path \in loadedFiles))
       => /\ io' = io
          /\ loadedFiles' = loadedFiles
          /\ extraLibs' = extraLibs
          /\ NoFrameFor(lastLoadCall')]_vars

\* C5 witness: the last step called loadSourceFile at depth 6
C5_Witness == lastLoadCall # NoCall /\ lastLoadCall.depth > 5

\* a second setContent message for a file of the corpus called loadSourceFile
C5_WitnessInCorpus ==
  /\ lastLoadCall # NoCall /\ lastLoadCall.depth = 0
  /\ lastLoadCall.path \in loadedFiles /\ nset = 2 /\ Idle

\* the table cut down to the first pattern that matches importPath
FirstMatchOnly(paths, importPath) ==
  LET ks == {k \in DOMAIN paths : IsSome(AliasMatch(paths[k].alias, importPath))}
  IN IF ks = {} THEN <<>>
     ELSE <<paths[CHOOSE k \in ks : \A h \in ks : k <= h]>>

\* C6: under every alias table, patterns with no target included, what
\* resolvePathAlias returns is decided by the first pattern, in declaration
\* order, that matches the specifier; no later pattern is consulted.
C6_FirstMatchingPatternDecides ==
  IsProbe(probe, "resolvePathAlias")
    => probe.result = resolvePathAlias(FirstMatchOnly(tsconfigPaths, probe.importPath),
                                       tsconfigBaseUrl, probe.importPath)

\* C7: under {"@/*": ["src/*", "lib/*"]}, when only lib/utils.ts exists,
\* the load of src/app.ts, which imports '@/utils', loads lib/utils.ts.
C7_SecondTargetLoaded ==
  (fs = TargetsFs(FALSE, TRUE) /\ currentFilename = "src/app.ts" /\ FirstLoadDone)
    => "lib/utils.ts" \in loadedFiles

\* the load of a file that imports '@/lib/utils' has completed under
\* {"@/*": ["src/*"]} and base path '.', the three candidates exist and the
\* stem itself is no file
UtilsLoadDone ==
  /\ FirstLoadDone
  /\ tsconfigPaths = <<Alias("@/*", <<"src/*">>)>> /\ tsconfigBaseUrl = "."
  /\ [spec |-> "@/lib/utils", route |-> "alias"] \in scanned
  /\ \A ext \in {".ts", ".tsx", ".js"} : IsSome(ReadFile("src/lib/utils" \o ext))
  /\ ~IsSome(ReadFile("src/lib/utils"))

CrawlerRead(p) ==
  /\ <<"loadDtsFromDir", "readFile", p>> \in DOMAIN io
  /\ IsSome(ReadFile(p))
  /\ \A t \in TaskIds : \A f \in FramesOf(t) :
       ~(f.fn = "loadDtsFromDir" /\ f.pc = "readFile" /\ f.fullPath = p)

PackageNames == Range(pkgCalls)

\* C10 as stated: of the specifiers extracted by the loads, those that are
\* relative or match an alias pattern are never passed to loadPackageTypes
\* and all the others are.
C10_ExternalsPassedToPackageLoader ==
  Idle => \A x \in scanned :
            IF \/ StartsWith(x.spec, ".")
               \/ IsSome(resolvePathAlias(tsconfigPaths, tsconfigBaseUrl, x.spec))
              THEN x.spec \notin PackageNames
              ELSE x.spec \in PackageNames

\* the names loadAllNodeModulesTypes passes to loadPackageTypes
BulkNames ==
  Range(PriorityPackages)
    \cup (IF IsSome(Readdir("node_modules/@types"))
            THEN {e.name : e \in {x \in Range(Val(Readdir("node_modules/@types"))) :
                                    x.isDirectory}}
            ELSE {})

\* the step is one of loadSourceFile: a call of it, or one of its resumptions
LoadSourceFileActs ==
  \/ lastLoadCall' # NoCall
  \/ scanned' # scanned
  \/ \E t \in TaskIds :
       /\ tasks'[t] # tasks[t]
       /\ \/ Running(t, "loadSourceFile", "exists")
          \/ Running(t, "loadSourceFile", "readFile")
          \/ Running(t, "loadSourceFile", "added")
          \/ Running(t, "loadSourceFile", "scan")

\* C10, amended: no step of a load calls loadPackageTypes, whatever the
\* specifiers it extracts: a package import is skipped.  loadPackageTypes
\* is called only by loadAllNodeModulesTypes, with the names of the
\* priority list and of the directories of node_modules/@types.
C10_LoadsSkipPackageImports ==
  /\ [][LoadSourceFileActs => pkgCalls' = pkgCalls]_vars
  /\ [](PackageNames \subseteq BulkNames)

\* C10 witness: every load is over, a package import was extracted and
\* skipped, and loadPackageTypes was never called with it
C10_Witness ==
  /\ Idle /\ nset >= 1
  /\ \E x \in scanned :
       /\ x.route = "skipped"
       /\ ~StartsWith(x.spec, "@/") /\ ~StartsWith(x.spec, "~/")
       /\ x.spec \notin PackageNames

\* tsconfig.json can be read and parsed
ConfigOk ==
  IsSome(ReadFile("tsconfig.json")) /\ Val(ReadFile("tsconfig.json")).json.ok

\* loadTsConfig() has returned
ConfigLoaded == \A k \in DOMAIN tasks[0] : tasks[0][k].fn # "loadTsConfig"

\* C11: when tsconfig.json is missing, unreadable or no JSON, loadTsConfig
\* returns without raising (initTypeSystem goes on), sets the default
\* options record and leaves tsconfigPaths empty and tsconfigBaseUrl '.';
\* no load then resolves a non-relative specifier to a path: none is
\* recursed into.
C11_DefaultsWithoutConfig ==
  /\ [][(~ConfigLoaded /\ ConfigLoaded')
          => tasks'[0] = <<Frame("initTypeSystem", "loadTsConfig", "", 0, 0)>>]_vars
  /\ []((ConfigLoaded /\ ~ConfigOk)
          => /\ compilerOptions = DefaultOptions
             /\ tsconfigPaths = <<>>
             /\ tsconfigBaseUrl = "."
             /\ \A x \in scanned : x.route # "alias"
             /\ lastLoadCall # NoCall
                  => (lastLoadCall.spec = "" \/ StartsWith(lastLoadCall.spec, ".")))

\* C11 witness: without a usable tsconfig.json, the load of a file that
\* imports '@/x' has completed and src/x.ts, which exists, is not registered
C11_Witness ==
  /\ ~ConfigOk /\ FirstLoadDone
  /\ [spec |-> "@/x", route |-> "unresolved"] \in scanned
  /\ "src/x.ts" \in SourceFiles \ loadedFiles
  /\ compilerOptions = DefaultOptions

\* the declaration files a crawl of dirPath is to register: those in
\* directories that can be listed, not hidden, not under a skipped
\* directory, within the depth bound, readable and below the size limit
RECURSIVE CrawlTargets(_, _, _)
CrawlTargets(dirPath, maxDepth, currentDepth) ==
  IF currentDepth > maxDepth \/ ~IsSome(Readdir(dirPath)) THEN {}
  ELSE LET entries == {e \in Range(Val(Readdir(dirPath))) : ~StartsWith(e.name, ".")}
           child(e) == IF dirPath # "" THEN dirPath \o "/" \o e.name ELSE e.name
       IN {child(e) : e \in {x \in entries :
                               /\ ~x.isDirectory /\ EndsWith(x.name, ".d.ts")
                               /\ IsSome(ReadFile(child(x)))
                               /\ fs[child(x)].len < 500 * 1024}}
          \cup UNION {CrawlTargets(child(e), maxDepth, currentDepth + 1) :
                        e \in {x \in entries : x.isDirectory /\ x.name \notin HeavyDirs}}

\* loadProjectSources has crawled src/ and returned
SrcCrawlDone ==
  /\ <<"loadDtsFromDir", "readdir", "src">> \in DOMAIN io
  /\ \A k \in DOMAIN tasks[0] :
       tasks[0][k].fn \notin {"loadProjectSources", "loadDtsFromDir"}

\* the step resumes a loadDtsFromDir frame of call chain t
CrawlerActs(t) ==
  \/ Running(t, "loadDtsFromDir", "readdir")
  \/ Running(t, "loadDtsFromDir", "readFile")
  \/ Running(t, "loadDtsFromDir", "loop")

\* C12: a readdir or readFile that rejects during a crawl costs only that
\* directory or that file: the crawl never raises (a step of it at most
\* returns to its caller), and when the crawl of src/ is over every
\* declaration file it could list and read, below the size limit and
\* within the depth bound, is registered.
C12_CrawlSkipsFailures ==
  /\ [][\A t \in TaskIds :
          (CrawlerActs(t) /\ tasks'[t] # tasks[t])
            => /\ Len(tasks'[t]) >= Len(tasks[t]) - 1
               /\ SubSeq(tasks'[t], 1, Len(tasks[t]) - 2)
                    = SubSeq(tasks[t], 1, Len(tasks[t]) - 2)]_vars
  /\ [](SrcCrawlDone => CrawlTargets("src", 5, 0) \subseteq loadedFiles)

\* C12 witness: the crawl of src/ is over, one directory could not be
\* listed and one file could not be read, and the files after them are
\* registered
C12_Witness ==
  /\ SrcCrawlDone
  /\ <<"readdir", "src/bad">> \in faulty /\ <<"readFile", "src/b.d.ts">> \in faulty
  /\ <<"loadDtsFromDir", "readdir", "src/bad">> \in DOMAIN io
  /\ <<"loadDtsFromDir", "readFile", "src/b.d.ts">> \in DOMAIN io
  /\ {"src/a.d.ts", "src/c.d.ts", "src/sub/d.d.ts"} \subseteq loadedFiles
  /\ "src/b.d.ts" \notin loadedFiles /\ "src/bad/e.d.ts" \notin loadedFiles

\* C13: whichever single call of window.gitton.fs rejects while package
\* types are loaded, when initTypeSystem() is over loadPackageTypes has been
\* called for every priority package and every directory of
\* node_modules/@types, and loadProjectSources has run.
C13_PackageFailureIsolated ==
  tasks[0] = <<>>
    => /\ BulkNames \subseteq PackageNames
       /\ <<"loadDtsFromDir", "readdir", "src">> \in DOMAIN io

\* C14: no step removes a path from the corpus: loadedFiles after a step
\* includes loadedFiles before it.
C14_CorpusOnlyGrows == [][loadedFiles \subseteq loadedFiles']_vars

\* C14 witness: source loads, crawls and a package's types entry have all
\* added to the corpus
C14_Witness ==
  \A by \in {"loadSourceFile", "loadDtsFromDir", "loadPackageTypes"} :
    \E k \in DOMAIN extraLibs :
      extraLibs[k].by = by /\ Cardinality(loadedFiles) >= 3

\* how far initTypeSystem() has come: the await it is suspended at
InitRank ==
  IF tasks[0] = <<>> THEN 3
  ELSE CASE tasks[0][1].pc = "loadTsConfig" -> 0
         [] tasks[0][1].pc = "loadAllNodeModulesTypes" -> 1
         [] tasks[0][1].pc = "loadProjectSources" -> 2

\* initTypeSystem() is fulfilled: it is over and loadProjectSources() came
\* to its last statement
InitFulfilled ==
  /\ tasks[0] = <<>>
  /\ <<"loadDtsFromDir", "readdir", "src">> \in DOMAIN io

\* the session phase of the state machine
SessionPhase ==
  CASE InitRank = 0 -> "Uninitialized"
    [] InitRank \in {1, 2} -> "ConfiguringLoaded"
    [] InitFulfilled -> "Ready"
    [] OTHER -> "Rejected"

\* the entries a step adds to the engine's inputs
NewLibs == {extraLibs'[k] : k \in (Len(extraLibs) + 1)..Len(extraLibs')}

\* C15: the phase only advances, Uninitialized -> ConfiguringLoaded ->
\* Ready.  The configuration is written only while Uninitialized; the bulk
\* package load works only after that and before the project source load
\* starts; the project source load works only after the bulk load is over;
\* Ready is entered from the end of the project source load; no earlier
\* phase is entered again.
C15_PhaseForward ==
  /\ [][/\ InitRank' >= InitRank
        /\ InitRank' > InitRank + 1 => SessionPhase' = "Rejected"
        /\ <<compilerOptions, tsconfigPaths, tsconfigBaseUrl>>'
             # <<compilerOptions, tsconfigPaths, tsconfigBaseUrl>>
             => SessionPhase = "Uninitialized"
        /\ pkgCalls' # pkgCalls
             => compilerOptions # NoOptions /\ InitRank' = 1
        /\ \A lib \in NewLibs :
             lib.task = 0
               => IF StartsWith(lib.uri, Uri("node_modules/"))
                    THEN InitRank = 1 ELSE InitRank = 2
        /\ (SessionPhase # "Ready" /\ SessionPhase' = "Ready")
             => tasks[0] = <<Frame("initTypeSystem", "loadProjectSources", "", 0, 0)>>
       ]_vars
  /\ [](\A k \in DOMAIN tasks[0] :
          CASE tasks[0][k].fn = "loadTsConfig" -> InitRank = 0
            [] tasks[0][k].fn \in {"loadAllNodeModulesTypes", "loadPackageTypes"}
                 -> InitRank = 1
            [] tasks[0][k].fn \in {"loadProjectSources", "loadSourceFile"}
                 -> InitRank = 2
            [] OTHER -> InitRank \in {0, 1, 2})
  /\ [](SessionPhase = "Ready"
          => compilerOptions # NoOptions /\ pkgCalls # <<>>)

\* C15 witness: Ready is reached after packages and project sources were
\* fed by initTypeSystem() while a setContent load ran in between
C15_Witness ==
  /\ SessionPhase = "Ready"
  /\ nset >= 1
  /\ \E k \in DOMAIN extraLibs :
       extraLibs[k].task = 0 /\ StartsWith(extraLibs[k].uri, Uri("node_modules/"))
  /\ \E k \in DOMAIN extraLibs :
       extraLibs[k].task = 0 /\ extraLibs[k].by = "loadSourceFile"
  /\ \E k \in DOMAIN extraLibs : extraLibs[k].task # 0

\* the compilerOptions object of the project's tsconfig.json
ConfiguredOptions ==
  IF ConfigOk /\ Has(Val(ReadFile("tsconfig.json")).json.value, "compilerOptions")
    THEN Val(ReadFile("tsconfig.json")).json.value.compilerOptions
    ELSE <<>>

\* the alias table and the base path the Configuration Loader produces
ConfiguredPaths ==
  IF Has(ConfiguredOptions, "paths") THEN ObjectEntries(ConfiguredOptions.paths)
  ELSE <<>>

ConfiguredBaseUrl == FieldOr(ConfiguredOptions, "baseUrl", ".")

\* C16: every scanned '@/' or '~/' specifier that the configured alias
\* table resolves was resolved through it, whenever its file was scanned.
C16_LoadsUseConfiguredAliases ==
  \A x \in scanned :
    /\ StartsWith(x.spec, "@/") \/ StartsWith(x.spec, "~/")
    /\ IsSome(resolvePathAlias(ConfiguredPaths, ConfiguredBaseUrl, x.spec))
    => x.route = "alias"

\* the candidates of a path stem, in probing order
Candidates(stem) ==
  <<stem, stem \o ".ts", stem \o ".tsx", stem \o ".js", stem \o ".jsx",
    stem \o "/index.ts", stem \o "/index.tsx", stem \o "/index.js",
    stem \o "/index.jsx">>

\* exists(p) answers true
Present(p) == Exists(p) = Some(TRUE)

\* p exists and its read succeeds
Readable(p) == Present(p) /\ IsSome(ReadFile(p))

\* frame f of loadSourceFile has accepted its candidate
Accepted(f) == f.fn = "loadSourceFile" /\ f.pc \in {"added", "scan"}

\* how often the call op(path) was issued by fn
IoCount(fn, op, path) ==
  IF <<fn, op, path>> \in DOMAIN io THEN io[<<fn, op, path>>] ELSE 0

\* C17 as stated: an invocation that has accepted a candidate found no
\* earlier candidate of its stem existing.
C17_FirstExistingAccepted ==
  \A t \in TaskIds : \A f \in FramesOf(t) :
    Accepted(f)
      => \A k \in 1..(f.i - 1) : ~Present(Candidates(f.arg)[k])

\* C17, amended: an invocation probes the nine candidates of its stem in
\* order, one exists() at a time; it comes to a candidate only after every
\* earlier one did not exist or could not be read; it accepts the first
\* candidate that exists and whose read succeeds, registers it, and probes
\* no candidate after it; when none is readable it registers nothing.
C17_FirstReadableAccepted ==
  /\ [](\A t \in TaskIds : \A f \in FramesOf(t) :
          f.fn = "loadSourceFile"
            => /\ f.i \in 1..9
               /\ f.fullPath = Candidates(f.arg)[f.i]
               /\ \A k \in 1..(f.i - 1) : ~Readable(Candidates(f.arg)[k])
               /\ \A k \in 1..f.i :
                    IoCount("loadSourceFile", "exists", Candidates(f.arg)[k]) >= 1
               /\ f.pc = "readFile" => Present(f.fullPath)
               /\ Accepted(f) => Readable(f.fullPath) /\ f.fullPath \in loadedFiles)
  /\ [][\A t \in TaskIds : \A k \in DOMAIN tasks[t] \cap DOMAIN tasks'[t] :
          LET f == tasks[t][k]
              g == tasks'[t][k]
          IN (f.fn = "loadSourceFile" /\ g.fn = "loadSourceFile")
               => /\ g.arg = f.arg
                  /\ g.i \in {f.i, f.i + 1}
                  /\ Accepted(f) => Accepted(g) /\ g.i = f.i
                  /\ g.i = f.i + 1
                       => /\ ~Readable(f.fullPath)
                          /\ g.pc = "exists"
                          /\ io' = Bump(io, <<"loadSourceFile", "exists", g.fullPath>>)
                          /\ loadedFiles' = loadedFiles]_vars
  /\ [][\A t \in TaskIds :
          (/\ Len(tasks[t]) > 0 /\ Len(tasks'[t]) < Len(tasks[t])
           /\ Top(Machine(t)).fn = "loadSourceFile"
           /\ ~Accepted(Top(Machine(t))))
            => /\ Top(Machine(t)).i = 9
               /\ ~Readable(Top(Machine(t)).fullPath)
               /\ loadedFiles' = loadedFiles]_vars
  /\ [](FirstLoadDone
          => \A stem \in ImportedStems(currentFilename) :
               {p \in Range(Candidates(stem)) : p \in loadedFiles}
                 = (IF IsSome(FirstFile(stem)) THEN {Val(FirstFile(stem))} ELSE {}))

\* C17 witness: a load has ended in which the stem src/lib, a directory,
\* led to a directory index being registered and all nine candidates of
\* src/gone were probed in vain
C17_Witness ==
  /\ FirstLoadDone
  /\ Present("src/lib")
  /\ \E k \in 6..9 : Candidates("src/lib")[k] \in loadedFiles
  /\ \A k \in 1..9 : IoCount("loadSourceFile", "exists", Candidates("src/gone")[k]) = 1

\* the file an aliased specifier stands for under the alias table
AliasedFile(spec) ==
  LET r == resolvePathAlias(tsconfigPaths, tsconfigBaseUrl, spec)
  IN IF StartsWith(spec, ".") \/ ~IsSome(r) THEN None
     ELSE FirstFile(NormalizePath(Val(r)))

\* C18: once the load of a file has completed, every specifier of the file
\* that matches a pattern of the alias table and whose target exists has
\* its target in the corpus, whatever the prefix of the pattern.
C18_AliasedTargetsRegistered ==
  FirstLoadDone
    => \A spec \in Range(ExtractImports(fs[currentFilename].stmts)) :
         IsSome(AliasedFile(spec)) => Val(AliasedFile(spec)) \in loadedFiles

\* the segment stack: '.' is dropped, '..' pops
RECURSIVE StackSegments(_, _)
StackSegments(parts, acc) ==
  IF Len(parts) = 0 THEN acc
  ELSE StackSegments(Tail(parts),
         IF Head(parts) = ".." THEN SubSeq(acc, 1, Len(acc) - 1)
         ELSE IF Head(parts) = "." THEN acc
         ELSE Append(acc, Head(parts)))

\* the reference normalization of dir(importer)/specifier: the segments of
\* the importer's directory, none for a file in the project root, followed
\* by the segments of the specifier
ReferenceStem(importer, importPath) ==
  Join(StackSegments(SliceButLast(Split(importer, "/")) \o Split(importPath, "/"),
                     <<>>), "/")

\* C19: every load a scan starts for a relative specifier is given the
\* reference normalization of dir(importer)/specifier as its stem.
C19_RelativeStemIsReference ==
  [][(lastLoadCall' # NoCall /\ StartsWith(lastLoadCall'.spec, "."))
       => lastLoadCall'.path
            = ReferenceStem(Top(Machine(lastLoadCall'.task)).fullPath,
                            lastLoadCall'.spec)]_vars

\* the files file p imports directly by a relative specifier
RelativeImported(p) ==
  LET rs == {ResolveImport(p, spec, tsconfigPaths, tsconfigBaseUrl) :
               spec \in {x \in Range(ExtractImports(fs[p].stmts)) : StartsWith(x, ".")}}
  IN {Val(y) : y \in {FirstFile(Val(r)) : r \in rs} \ {None}}

\* C20: while the session is Ready, once the load started for the active
\* file has completed, every file the active file imports directly by a
\* relative specifier is in the corpus.
C20_ActiveFileImportsLoaded ==
  (/\ SessionPhase = "Ready" /\ Idle
   /\ nset >= 1 /\ IsSome(ReadFile(currentFilename)))
    => RelativeImported(currentFilename) \subseteq loadedFiles

\* the specifiers file p has in forms the pattern matches, in the order of
\* the text
TextSpecs(p) ==
  LET ms == SelectSeq(fs[p].stmts, LAMBDA st : st.form \in MatchedForms)
  IN [k \in DOMAIN ms |-> ms[k].spec]

\* the file the k-th specifier of file p stands for, if any
TargetOf(p, k) ==
  LET r == ResolveImport(p, TextSpecs(p)[k], tsconfigPaths, tsconfigBaseUrl)
  IN IF IsSome(r) THEN FirstFile(Val(r)) ELSE None

\* depth-first pre-order of the import graph from file p on, a file being
\* visited once: acc is the order so far
RECURSIVE PreOrderFile(_, _)
RECURSIVE PreOrderSpecs(_, _, _)
PreOrderFile(p, acc) ==
  IF p \in Range(acc) THEN acc ELSE PreOrderSpecs(p, 1, Append(acc, p))

PreOrderSpecs(p, k, acc) ==
  IF k > Len(TextSpecs(p)) THEN acc
  ELSE PreOrderSpecs(p, k + 1,
         IF IsSome(TargetOf(p, k)) THEN PreOrderFile(Val(TargetOf(p, k)), acc)
         ELSE acc)

\* the files registered so far, in the order of their registration
RegisteredOrder == [k \in DOMAIN extraLibs |-> extraLibs[k].uri]

\* the import graph from p on has no cycle and no path longer than the
\* recursion bound
ShallowAcyclic(p) ==
  /\ \A q \in Reachable({p}) : q \notin Reachable(Imported(q))
  /\ Cardinality(Reachable({p})) <= DepthLimit + 1

StubsPath(packageName) == "node_modules/@types/" \o packageName
OwnPath(packageName) == "node_modules/" \o packageName

\* path p is dir or lies below it
Under(dir, p) == p = dir \/ StartsWith(p, dir \o "/")

\* the paths given to the filesystem API so far
IoPaths == {k[3] : k \in DOMAIN io}

\* the crawl loadPackageTypes is waiting for, if it is waiting for one:
\* the frame above frame k of stack s
CrawlOf(s, k) == IF k + 1 \in DOMAIN s THEN s[k + 1] ELSE s[k]

\* C22: for a package whose type-stubs directory exists, no path in or
\* below the package's own directory is given to the filesystem API or
\* registered, and the stubs are crawled from depth 0 with maxDepth 3; the
\* own directory is asked for only after the stubs directory was found
\* missing; while a package that exists in neither place is loaded the
\* corpus does not change; after initialisation the registered files
\* below the stubs directory are those the crawl reaches within depth 3.
C22_StubsPreferred ==
  /\ [](\A n \in Range(pkgCalls) :
          /\ Present(StubsPath(n))
               => \A p \in IoPaths \cup loadedFiles : ~Under(OwnPath(n), p)
          /\ OwnPath(n) \in IoPaths => Exists(StubsPath(n)) = Some(FALSE))
  /\ [](\A t \in TaskIds : \A k \in DOMAIN tasks[t] :
          LET f == tasks[t][k]
              g == CrawlOf(tasks[t], k)
          IN (f.fn = "loadPackageTypes" /\ f.pc = "typesCrawl")
               => /\ Present(StubsPath(f.arg))
                  /\ g.fn = "loadDtsFromDir"
                       => /\ g.arg = StubsPath(f.arg)
                          /\ g.maxDepth = 3 /\ g.depth = 0)
  /\ [][\A t \in TaskIds :
          (/\ Len(tasks[t]) > 0
           /\ Top(Machine(t)).fn = "loadPackageTypes"
           /\ ~Present(StubsPath(Top(Machine(t)).arg))
           /\ ~Present(OwnPath(Top(Machine(t)).arg)))
            => /\ loadedFiles' = loadedFiles /\ extraLibs' = extraLibs
               /\ \A k \in DOMAIN tasks'[t] : tasks'[t][k].fn # "loadDtsFromDir"]_vars
  /\ [](InitFulfilled
          => \A n \in Range(pkgCalls) :
               Present(StubsPath(n))
                 => {p \in loadedFiles : Under(StubsPath(n), p)}
                      = CrawlTargets(StubsPath(n), 3, 0))

\* C22 witness: react has both directories; its stubs were registered down
\* to the third nesting level and initialisation is over
C22_Witness ==
  /\ InitFulfilled
  /\ Present(StubsPath("react")) /\ Present(OwnPath("react"))
  /\ "node_modules/@types/react/l1/l2/l3/x3.d.ts" \in loadedFiles
  /\ "node_modules/@types/react/l1/l2/l3/l4/x4.d.ts" \notin loadedFiles
  /\ "react" \in Range(pkgCalls)

\* the types entry the manifest of a package names, None when the manifest
\* cannot be read or parsed or names none
TypesEntry(packageName) ==
  LET c == ReadFile(OwnPath(packageName) \o "/package.json")
      pkgJson == Val(c).json.value
  IN IF ~IsSome(c) THEN None
     ELSE IF ~Val(c).json.ok THEN None
     ELSE IF Has(pkgJson, "types") THEN Some(OwnPath(packageName) \o "/" \o pkgJson.types)
     ELSE IF Has(pkgJson, "typings") THEN Some(OwnPath(packageName) \o "/" \o pkgJson.typings)
     ELSE None

\* the packages loaded from their own directory
OwnOnly == {n \in Range(pkgCalls) :
              Exists(StubsPath(n)) = Some(FALSE) /\ Present(OwnPath(n))}

\* the positions of the registrations made for the directory dir by fn
FedBy(fn, dir) ==
  {k \in DOMAIN extraLibs :
     extraLibs[k].by = fn /\ StartsWith(extraLibs[k].uri, Uri(dir \o "/"))}

\* C23: for a package that has only its own directory, loadPackageTypes
\* does not return before it has crawled that directory from depth 0 with
\* maxDepth 2, whatever the manifest is like; the types entry, when the
\* manifest names one that exists and can be read, is registered before
\* the crawl registers anything; after initialisation the files registered
\* below the directory are the entry and what the crawl reaches within
\* depth 2.
C23_OwnDirectoryCrawled ==
  /\ [][\A t \in TaskIds :
          (/\ Len(tasks[t]) > 0 /\ Len(tasks'[t]) < Len(tasks[t])
           /\ Top(Machine(t)).fn = "loadPackageTypes"
           /\ Top(Machine(t)).arg \in OwnOnly)
            => /\ Top(Machine(t)).pc = "packageCrawl"
               /\ <<"loadDtsFromDir", "readdir", OwnPath(Top(Machine(t)).arg)>>
                    \in DOMAIN io]_vars
  /\ [](\A t \in TaskIds : \A k \in DOMAIN tasks[t] :
          LET f == tasks[t][k]
              g == CrawlOf(tasks[t], k)
          IN (f.fn = "loadPackageTypes" /\ f.pc = "packageCrawl")
               => /\ f.arg \in OwnOnly
                  /\ g.fn = "loadDtsFromDir"
                       => /\ g.arg = OwnPath(f.arg)
                          /\ g.maxDepth = 2 /\ g.depth = 0)
  /\ [](\A n \in OwnOnly :
          \A k \in FedBy("loadPackageTypes", OwnPath(n)) :
            /\ TypesEntry(n) = Some(SubSeq(extraLibs[k].uri, Len(Uri("")) + 1,
                                           Len(extraLibs[k].uri)))
            /\ \A h \in FedBy("loadDtsFromDir", OwnPath(n)) : k < h)
  /\ [](InitFulfilled
          => \A n \in OwnOnly :
               {p \in loadedFiles : Under(OwnPath(n), p)}
                 = CrawlTargets(OwnPath(n), 2, 0)
                     \cup (IF IsSome(TypesEntry(n)) /\ Readable(Val(TypesEntry(n)))
                             THEN {Val(TypesEntry(n))} ELSE {}))

\* C23 witness: initialisation is over and the package directory of sonner
\* was crawled to its second nesting level although its manifest names no
\* types entry that exists
C23_Witness ==
  /\ InitFulfilled
  /\ "sonner" \in OwnOnly
  /\ ~IsSome(TypesEntry("sonner")) \/ ~Present(Val(TypesEntry("sonner")))
  /\ "node_modules/sonner/p1/p2/y2.d.ts" \in loadedFiles
  /\ "node_modules/sonner/p1/p2/p3/y3.d.ts" \notin loadedFiles

\* the manifest names its types entry in `types` and in `typings`: the
\* file named by `types` was registered, from beyond the reach of the crawl
C23_WitnessEntry ==
  /\ InitFulfilled
  /\ "node_modules/sonner/p1/p2/p3/y3.d.ts" \in loadedFiles
  /\ "node_modules/sonner/p1/p2/p3/z3.d.ts" \notin loadedFiles
  /\ "node_modules/sonner/p1/p2/y2.d.ts" \in loadedFiles

\* the directories of node_modules/@types outside the priority list, in
\* the order readdir gives them
StubEntries ==
  IF Present("node_modules/@types") /\ IsSome(Readdir("node_modules/@types"))
    THEN LET es == SelectSeq(Val(Readdir("node_modules/@types")),
                             LAMBDA e : e.isDirectory
                                        /\ e.name \notin Range(PriorityPackages))
         IN [k \in DOMAIN es |-> es[k].name]
    ELSE <<>>

\* the bulk load is over
BulkLoadOver == InitRank >= 2

\* the loadPackageTypes calls made so far are the first ones of the
\* priority list followed by the stub directories
CallsInOrder ==
  /\ Len(pkgCalls) <= Len(PriorityPackages \o StubEntries)
  /\ pkgCalls = SubSeq(PriorityPackages \o StubEntries, 1, Len(pkgCalls))

\* C24: the loadPackageTypes calls are made in the order of the priority
\* list followed by the non-priority directories of node_modules/@types,
\* and once the bulk load is over each of them was called, exactly once.
C24_BulkLoadCallsAll ==
  /\ CallsInOrder
  /\ BulkLoadOver => pkgCalls = PriorityPackages \o StubEntries

\* the frame of the crawl that frame k of stack s belongs to: the lowest
\* of the loadDtsFromDir frames that call one another up to frame k
RootOf(s, k) ==
  s[CHOOSE r \in 1..k :
      /\ \A h \in r..k : s[h].fn = "loadDtsFromDir"
      /\ r = 1 \/ s[r - 1].fn # "loadDtsFromDir"]

\* the segments of path p below the directory root
Below(root, p) ==
  SubSeq(Split(p, "/"), Len(Split(root, "/")) + 1, Len(Split(p, "/")))

\* directory p may be listed by crawl(root, maxDepth): it is root or lies
\* at most maxDepth levels below it, and no directory on the way is hidden
\* or one of test, tests, __tests__, examples, docs
MayList(root, maxDepth, p) ==
  /\ Under(root, p)
  /\ Len(Below(root, p)) <= maxDepth
  /\ \A k \in DOMAIN Below(root, p) :
       /\ ~StartsWith(Below(root, p)[k], ".")
       /\ Below(root, p)[k] \notin {"test", "tests", "__tests__", "examples", "docs"}

\* file p may be read and registered by crawl(root, maxDepth)
MayRegister(root, maxDepth, p) ==
  LET dir == Join(SliceButLast(Split(p, "/")), "/")
      name == Split(p, "/")[Len(Split(p, "/"))]
  IN /\ MayList(root, maxDepth, dir)
     /\ ~StartsWith(name, ".")
     /\ EndsWith(name, ".d.ts")

\* C25: every directory a crawl lists is one crawl(dir, maxDepth) may
\* list, listed at its nesting depth below dir; every file it reads or
\* registers is a '.d.ts' file of such a directory whose name does not
\* start with '.'; the filesystem calls of the crawler are those of its
\* suspended invocations.
C25_CrawlStaysInBounds ==
  /\ [](\A t \in TaskIds : \A k \in DOMAIN tasks[t] :
          LET f == tasks[t][k]
              root == RootOf(tasks[t], k)
          IN f.fn = "loadDtsFromDir"
               => /\ root.depth = 0
                  /\ f.maxDepth = root.maxDepth
                  /\ f.depth = Len(Below(root.arg, f.arg))
                  /\ MayList(root.arg, root.maxDepth, f.arg)
                  /\ f.pc = "readFile"
                       => MayRegister(root.arg, root.maxDepth, f.fullPath))
  /\ [][/\ \A lib \in NewLibs :
             lib.by = "loadDtsFromDir"
               => LET s == tasks[lib.task]
                      f == s[Len(s)]
                  IN /\ f.fn = "loadDtsFromDir" /\ f.pc = "readFile"
                     /\ lib.uri = Uri(f.fullPath)
        /\ \A key \in DOMAIN io' :
             (key[1] = "loadDtsFromDir" /\ (key \notin DOMAIN io \/ io'[key] # io[key]))
               => \E t \in TaskIds :
                    /\ Len(tasks'[t]) > 0
                    /\ LET g == tasks'[t][Len(tasks'[t])]
                       IN /\ g.fn = "loadDtsFromDir"
                          /\ \/ key[2] = "readdir" /\ g.pc = "readdir" /\ key[3] = g.arg
                             \/ key[2] = "readFile" /\ g.pc = "readFile"
                                /\ key[3] = g.fullPath]_vars

\* C25 witness: the crawl of src/ is over; it registered the declaration
\* files down to the fifth nesting level and those beside the look-alike
\* names, and listed neither the sixth level nor a skipped directory
C25_Witness ==
  /\ InitFulfilled
  /\ {"src/ok/ok.d.ts", "src/ok/docs.d.ts", "src/ok/testing/in.d.ts",
      "src/n1/n2/n3/n4/n5/v.d.ts"} \subseteq loadedFiles
  /\ "src/n1/n2/n3/n4/n5/n6/v.d.ts" \in DOMAIN fs \ loadedFiles
  /\ "src/docs/t.d.ts" \in DOMAIN fs \ loadedFiles
  /\ "src/.hidden.d.ts" \in DOMAIN fs \ loadedFiles
  /\ \A p \in {"src/.git", "src/test", "src/tests", "src/__tests__", "src/examples",
               "src/docs", "src/n1/n2/n3/n4/n5/n6"} : p \notin IoPaths

\* the load started by the first setContent message is over
FirstLoadOver == nset = 1 /\ Idle

\* C26: a step of loadSourceFile ends at most its own invocation, never
\* one of its callers; it changes the corpus only by registering a
\* candidate it has read; an invocation that returns without a readable
\* candidate has probed all nine and leaves the corpus as it is; once the
\* load of a file is over every specifier of the file was processed and
\* every file it imports by a relative specifier is registered, whatever
\* happened to the specifiers before it.
C26_LoadNeverRaises ==
  /\ [][\A t \in TaskIds :
          (Len(tasks[t]) > 0 /\ Top(Machine(t)).fn = "loadSourceFile"
           /\ tasks'[t] # tasks[t])
            => /\ Len(tasks'[t]) >= Len(tasks[t]) - 1
               /\ SubSeq(tasks'[t], 1, Len(tasks[t]) - 1)
                    = SubSeq(tasks[t], 1, Len(tasks[t]) - 1)
               /\ loadedFiles' # loadedFiles
                    => /\ Top(Machine(t)).pc = "readFile"
                       /\ Readable(Top(Machine(t)).fullPath)
                       /\ loadedFiles' = loadedFiles \cup {Top(Machine(t)).fullPath}
               /\ (Len(tasks'[t]) < Len(tasks[t]) /\ ~Accepted(Top(Machine(t))))
                    => /\ \A k \in 1..9 :
                            /\ ~Readable(Candidates(Top(Machine(t)).arg)[k])
                            /\ IoCount("loadSourceFile", "exists",
                                       Candidates(Top(Machine(t)).arg)[k]) >= 1
                       /\ loadedFiles' = loadedFiles]_vars
  /\ [](FirstLoadOver
          => /\ ~IsSome(FirstFile(currentFilename))
                  => \A k \in DOMAIN extraLibs : extraLibs[k].task # 1
             /\ (IsSome(ReadFile(currentFilename)) /\ InitFulfilled)
                  => /\ \A spec \in Range(TextSpecs(currentFilename)) :
                          \E x \in scanned : x.spec = spec
                     /\ RelativeImported(currentFilename) \subseteq loadedFiles)

\* C26 witness: the load of src/app.ts is over; './gone' had no candidate,
\* the calls for './bad' were rejected, and './x', the specifier after
\* them, was loaded
C26_Witness ==
  /\ FirstLoadOver /\ currentFilename = "src/app.ts"
  /\ \A k \in 1..9 : IoCount("loadSourceFile", "exists", Candidates("src/gone")[k]) = 1
  /\ \E op \in {"exists", "readFile"} : <<op, "src/bad.ts">> \in faulty
  /\ IoCount("loadSourceFile", "exists", "src/bad.ts") = 1
  /\ "src/bad.ts" \notin loadedFiles
  /\ "src/x.ts" \in loadedFiles

\* the load of a file that does not exist is over: all nine candidates
\* were probed, every probe was rejected, nothing was registered
C26_WitnessMiss ==
  /\ FirstLoadOver /\ currentFilename = "src/none.ts"
  /\ \A k \in 1..9 :
       /\ IoCount("loadSourceFile", "exists", Candidates("src/none.ts")[k]) = 1
       /\ ~IsSome(Exists(Candidates("src/none.ts")[k]))
  /\ loadedFiles = {}

\* the forms of statement the claim names
ClaimedForms ==
  {"default", "named", "namespace", "defaultAndNamed", "sideEffect",
   "exportNamed", "exportStar", "dynamic", "require"}

\* the files file p names by a relative specifier in a statement of one of
\* the claimed forms
NamedByForms(p) ==
  LET stems == {ResolveImport(p, st.spec, tsconfigPaths, tsconfigBaseUrl) :
                  st \in {x \in Range(fs[p].stmts) :
                            x.form \in ClaimedForms /\ StartsWith(x.spec, ".")}}
  IN {Val(y) : y \in {FirstFile(Val(r)) : r \in stems} \ {None}}

\* C27: once the load of a file is over, every existing file it names by a
\* relative specifier in a static import, a re-export, a dynamic import or
\* a require is registered.
C27_EveryFormLoaded ==
  FirstLoadDone => NamedByForms(currentFilename) \subseteq loadedFiles

\* the text of tsconfig.json, '' where the project gives none
ConfigText ==
  IF "tsconfig.json" \in DOMAIN fs THEN fs["tsconfig.json"].text ELSE ""

\* tsconfig.json is given as text without comments: the text is JSON as
\* it stands
CommentFree == ConfigText # "" /\ JsonParse(ConfigText).ok

\* the text has '/*', '*/' or '//' in it
HasCommentMarks ==
  \E m \in {"/*", "*/", "//"} : IndexOf(ConfigText, m) # 0

\* C28: once loadTsConfig() has returned on a tsconfig.json without
\* comments whose strings hold '/*', '*/' or '//', tsconfigPaths and
\* tsconfigBaseUrl are the alias table and the base path the document
\* declares, and the options are those of the document, not the defaults.
C28_CommentFreeConfigParsed ==
  (InitRank >= 1 /\ CommentFree /\ HasCommentMarks) =>
    /\ tsconfigPaths = ConfiguredPaths
    /\ tsconfigBaseUrl = ConfiguredBaseUrl
    /\ compilerOptions = TsConfigOptions(ConfiguredOptions)

\* the same for the documents the replace leaves as they are
C28_UntouchedConfigParsed ==
  (InitRank >= 1 /\ ConfigText # "" /\ StripComments(ConfigText) = ConfigText) =>
    /\ tsconfigPaths = ConfiguredPaths
    /\ tsconfigBaseUrl = ConfiguredBaseUrl
    /\ compilerOptions = TsConfigOptions(ConfiguredOptions)

\* the same for the documents whose comments are outside strings that
\* hold no '*/' behind a '/*' and no '//'
C28_CommentedConfigParsed ==
  (InitRank >= 1 /\ ConfigText # "" /\ ~CommentFree) =>
    /\ tsconfigPaths = ConfiguredPaths
    /\ tsconfigBaseUrl = ConfiguredBaseUrl
    /\ compilerOptions = TsConfigOptions(ConfiguredOptions)

C28_WitnessUntouched ==
  /\ InitRank >= 1 /\ CommentFree /\ HasCommentMarks
  /\ tsconfigPaths = <<Alias("@/*", <<"src/*">>)>>
  /\ FirstLoadDone /\ "src/x.ts" \in loadedFiles

\* how often loadSourceFile read the file at path p
ReadsOf(p) == IoCount("loadSourceFile", "readFile", p)

\* C29: in the first load no file is read, and so scanned, more than once
\* by loadSourceFile.
C29_EachFileReadOnce ==
  nset <= 1 => \A p \in DOMAIN fs : ReadsOf(p) <= 1

\* what does hold: a call on a path that is a key of loadedFiles reads
\* nothing, which is the case of the entry-point filename and of no
\* extensionless stem
C29_RegisteredPathNotRead ==
  [][\A t \in DOMAIN tasks :
       (/\ lastLoadCall' # NoCall
        /\ lastLoadCall'.task = t
        /\ lastLoadCall'.path \in loadedFiles)
         => /\ io' = io
            /\ Len(tasks'[t]) <= Len(tasks[t])]_vars

\* the file a path string denotes on a host that resolves it against the
\* project root: empty and '.' segments go, '..' takes the segment before
RECURSIVE ResolvedParts(_, _)
ResolvedParts(parts, acc) ==
  IF Len(parts) = 0 THEN acc
  ELSE LET part == Head(parts)
       IN ResolvedParts(Tail(parts),
            IF part = ".." THEN Pop(acc)
            ELSE IF part \in {"", "."} THEN acc
            ELSE Append(acc, part))

PhysicalFile(p) == Join(ResolvedParts(Split(p, "/"), <<>>), "/")

\* C30: no two keys of loadedFiles denote the same file.
C30_OneEntryPerFile ==
  \A p, q \in loadedFiles : PhysicalFile(p) = PhysicalFile(q) => p = q

\* what does hold: no two registrations are made under the same string
C30_OneEntryPerString ==
  \A h, k \in DOMAIN extraLibs :
    (extraLibs[h].uri = extraLibs[k].uri /\ extraLibs[h].by = extraLibs[k].by) => h = k

\* the same for each of the three ways: the types entry and the crawl,
\* the entry-point filename and a specifier, the root-level importer and
\* the file shown itself
C30_TypesEntryOnce ==
  ~({"node_modules/sonner/./dist/index.d.ts", "node_modules/sonner/dist/index.d.ts"}
      \subseteq loadedFiles)

C30_EntryPointOnce == ~({"./src/a.ts", "src/a.ts"} \subseteq loadedFiles)

C30_RootImportOnce == ~({"/x.ts", "x.ts"} \subseteq loadedFiles)

\* the registrations the Package Type Loader caused: those of the types
\* entry and those of its crawls below node_modules
PackageLibs ==
  {k \in DOMAIN extraLibs :
     \/ extraLibs[k].by = "loadPackageTypes"
     \/ /\ extraLibs[k].by = "loadDtsFromDir"
        /\ StartsWith(extraLibs[k].uri, Uri("node_modules/"))}

\* C31: every declaration file registered through loadPackageTypes, by its
\* crawl or as the types entry of the manifest, is shorter than 500 * 1024.
C31_PackageTypesBelowLimit ==
  \A k \in PackageLibs : extraLibs[k].content.len < SizeLimit

\* what does hold: the files the crawls of loadPackageTypes registered are
\* shorter than the limit
C31_PackageCrawlBelowLimit ==
  \A k \in PackageLibs :
    extraLibs[k].by = "loadDtsFromDir" => extraLibs[k].content.len < SizeLimit

\* the corpus a setContent(content, filename) leaves when its load runs to
\* the end on the corpus L
LoadedAfter(L, filename) ==
  IF detectLanguage(filename) \in {"typescript", "javascript"}
    THEN LoadSourceFileAll(L, filename, 0)
    ELSE L

\* the corpus before the n-th setContent: what earlier chains registered
CorpusBefore(n) ==
  {p \in loadedFiles :
     \E k \in DOMAIN extraLibs : extraLibs[k].uri = Uri(p) /\ extraLibs[k].task < n}

\* C32: on the corpus initTypeSystem() leaves, showing A and then B leaves
\* the same corpus as showing B and then A, for any two files of the
\* project.
C32_LoadOrderIrrelevant ==
  (Idle /\ nset = 0) =>
    \A A, B \in inputs :
      LoadedAfter(LoadedAfter(loadedFiles, A), B)
        = LoadedAfter(LoadedAfter(loadedFiles, B), A)

\* the function is what the sessions do: when a load has ended, the corpus
\* is LoadedAfter of the corpus it started on
C32_LoadIsFunctional ==
  (Idle /\ nset >= 1) =>
    loadedFiles = LoadedAfter(CorpusBefore(nset), currentFilename)

\* the path names a directory of the project
IsDirectory(p) == p \in DOMAIN fs /\ fs[p].kind = "dir"

\* the stems that name a directory and that loadSourceFile has tried to
\* read as a file
DirectoryStems ==
  {p \in DOMAIN fs : IsDirectory(p) /\ IoCount("loadSourceFile", "readFile", p) >= 1}

\* the candidates of a stem that exist and can be read, by position
ReadablePositions(stem) ==
  {k \in 1..Len(Extensions) : Readable(Candidates(stem)[k])}

\* C33: an invocation whose bare stem is a directory goes on from the
\* rejected read of the stem to the candidate stem + '.ts', registering
\* nothing in that step; when the loads have ended, the first readable
\* candidate of every such stem is registered if there is one; and no
\* corpus entry is a directory.
C33_DirectoryStemGoesOn ==
  /\ [](\A k \in DOMAIN extraLibs : extraLibs[k].content.kind = "file")
  /\ [](\A p \in loadedFiles : ~IsDirectory(p))
  /\ [](Idle => \A stem \in DirectoryStems :
                  ReadablePositions(stem) # {}
                    => \E k \in ReadablePositions(stem) :
                         /\ \A h \in ReadablePositions(stem) : k <= h
                         /\ Candidates(stem)[k] \in loadedFiles)
  /\ [][\A t \in TaskIds :
          (/\ Running(t, "loadSourceFile", "readFile")
           /\ IsDirectory(Top(Machine(t)).fullPath)
           /\ Top(Machine(t)).i = 1
           /\ tasks'[t] # tasks[t])
            => /\ Len(tasks'[t]) = Len(tasks[t])
               /\ tasks'[t][Len(tasks'[t])].fn = "loadSourceFile"
               /\ tasks'[t][Len(tasks'[t])].pc = "exists"
               /\ tasks'[t][Len(tasks'[t])].i = 2
               /\ tasks'[t][Len(tasks'[t])].fullPath = Top(Machine(t)).arg \o ".ts"
               /\ loadedFiles' = loadedFiles]_vars

\* the stem src/lib is a directory, src/lib.ts and the like do not exist,
\* and the load has registered src/lib/index.tsx
C33_Witness ==
  /\ Idle
  /\ "src/lib" \in DirectoryStems
  /\ "src/lib/index.tsx" \in loadedFiles
  /\ "src/lib" \notin loadedFiles

\* the stem src/lib/utils is a directory and src/lib/utils.ts is registered
C33_WitnessSibling ==
  /\ Idle
  /\ "src/lib/utils" \in DirectoryStems
  /\ "src/lib/utils.ts" \in loadedFiles

\* no segment of the path is '.' or '..'
NoDotSegments(p) ==
  \A k \in DOMAIN Split(p, "/") : Split(p, "/")[k] \notin {".", ".."}

\* the number of '..' parts the parts start with
RECURSIVE LeadingUps(_)
LeadingUps(parts) ==
  IF Len(parts) > 0 /\ Head(parts) = ".." THEN 1 + LeadingUps(Tail(parts)) ELSE 0

\* the named components of the directory of a file
DirComponents(fullPath) ==
  {k \in DOMAIN SliceButLast(Split(fullPath, "/")) :
     SliceButLast(Split(fullPath, "/"))[k] # ""}

\* the specifier is '../' n times and then plain names, n being at least
\* the number of components of the importing directory
ClimbsToRoot(fullPath, spec) ==
  LET parts == Split(spec, "/")
      n == LeadingUps(parts)
  IN /\ n >= 1
     /\ n >= Cardinality(DirComponents(fullPath))
     /\ n < Len(parts)
     /\ \A k \in (n + 1)..Len(parts) : parts[k] \notin {".", "..", ""}

\* what is left of such a specifier below the project root
BelowRoot(spec) ==
  LET parts == Split(spec, "/")
  IN Join(SubSeq(parts, LeadingUps(parts) + 1, Len(parts)), "/")

\* C34: a suspended invocation of loadSourceFile at depth 1 or more has a
\* stem, and a candidate path, without '.' and '..' segments, and what it
\* registers is that candidate path; every call of
\* loadSourceFile at depth 1 or more is made on such a path; and a call for
\* a specifier with as many or more '..' than the importing directory has
\* components is made on the rest of the specifier, taken from the root.
C34_RecursionPathsNormalized ==
  /\ [](\A t \in TaskIds : \A f \in FramesOf(t) :
          (f.fn = "loadSourceFile" /\ f.depth >= 1)
            => NoDotSegments(f.arg) /\ NoDotSegments(f.fullPath))
  /\ [][\A t \in TaskIds :
          (/\ lastLoadCall' # NoCall
           /\ lastLoadCall'.task = t
           /\ lastLoadCall'.depth >= 1)
            => /\ NoDotSegments(lastLoadCall'.path)
               /\ Len(tasks[t]) > 0
               /\ ClimbsToRoot(tasks[t][Len(tasks[t])].fullPath, lastLoadCall'.spec)
                    => lastLoadCall'.path = BelowRoot(lastLoadCall'.spec)]_vars
  /\ [][\A t \in TaskIds :
          (/\ Running(t, "loadSourceFile", "readFile")
           /\ Top(Machine(t)).depth >= 1
           /\ tasks'[t] # tasks[t])
            => \A p \in loadedFiles' \ loadedFiles :
                 p = Top(Machine(t)).fullPath /\ NoDotSegments(p)]_vars

\* src/deep/m.ts has imported '../../../x', three levels up from a
\* directory two levels deep, and x.ts of the root is registered; main.ts
\* in the root has imported '../y' and y.ts is registered
C34_Witness ==
  /\ Idle
  /\ nset = 2
  /\ [spec |-> "../../../x", route |-> "relative"] \in scanned
  /\ [spec |-> "../y", route |-> "relative"] \in scanned
  /\ {"x.ts", "y.ts", "src/n.ts"} \subseteq loadedFiles

\* the invocations of loadDtsFromDir nested at the top of a stack: the
\* branch of the crawl that is running
RECURSIVE CrawlBranch(_)
CrawlBranch(s) ==
  IF Len(s) = 0 \/ s[Len(s)].fn # "loadDtsFromDir" THEN <<>>
  ELSE Append(CrawlBranch(SubSeq(s, 1, Len(s) - 1)), s[Len(s)])

\* how far an invocation of loadDtsFromDir has come: 0 before the listing
\* is there; at entry k, 3k while its file is read, 3k + 1 while its
\* directory is crawled and 3k + 2 once that is over
CrawlProgress(b, k) ==
  LET f == b[k]
  IN IF f.pc = "readdir" THEN 0
     ELSE IF f.pc = "readFile" THEN 3 * f.i
     ELSE IF k < Len(b) THEN 3 * f.i - 2
     ELSE 3 * f.i - 1

CrawlMeasure(s) == [k \in DOMAIN CrawlBranch(s) |-> CrawlProgress(CrawlBranch(s), k)]

\* a comes before b in the lexicographic order
CrawlLess(a, b) ==
  \E k \in DOMAIN a \cap DOMAIN b : a[k] < b[k] /\ \A h \in 1..(k - 1) : a[h] = b[h]

\* C35: a branch of a crawl has at most maxDepth + 1 suspended
\* invocations, the k-th of them at depth k - 1, so that with the call
\* that returns at `currentDepth > maxDepth` no more than maxDepth + 2
\* calls are nested; and every step of a crawl either ends it or moves
\* its branch forward in the lexicographic order of CrawlMeasure, whose
\* entries are bounded by the lengths of the listings: the crawl ends,
\* also where a directory is reachable from itself.
C35_CrawlTerminates ==
  /\ [](\A t \in TaskIds :
          LET b == CrawlBranch(tasks[t])
          IN \A k \in DOMAIN b :
               /\ b[k].depth = k - 1
               /\ b[k].maxDepth = b[1].maxDepth
               /\ k <= b[k].maxDepth + 1
               /\ b[k].i <= Len(b[k].entries) + 1
               /\ CrawlProgress(b, k) <= 3 * Len(b[k].entries) + 2)
  /\ [][\A t \in TaskIds :
          (CrawlBranch(tasks[t]) # <<>> /\ tasks'[t] # tasks[t])
            => \/ CrawlBranch(tasks'[t]) = <<>>
               \/ CrawlLess(CrawlMeasure(tasks[t]), CrawlMeasure(tasks'[t]))]_vars

\* the crawl of src, where src/l leads back to src, is over: it listed src
\* and five levels of l below it, registered a.d.ts under each, and did not
\* list the sixth level
C35_Witness ==
  /\ Idle
  /\ LinkDir(SrcCrawlDepth) \o "/a.d.ts" \in loadedFiles
  /\ IoCount("loadDtsFromDir", "readdir", LinkDir(SrcCrawlDepth)) = 1
  /\ IoCount("loadDtsFromDir", "readdir", LinkDir(SrcCrawlDepth + 1)) = 0
  /\ LinkDir(SrcCrawlDepth + 1) \in DOMAIN fs

====
